---- MODULE Spec2Model ----
(***************************************************************************)
(* RFID attendance terminal (Arduino Uno, 16-bit int): the attendance      *)
(* sketch of ReadandWrite_PersonalData.ino modelled as a state machine     *)
(* over the external AT24C32 byte store.                                   *)
(*                                                                         *)
(* Characters are their ASCII codes and a String is a sequence of codes.   *)
(* The I2C device is taken to acknowledge every transfer: a byte write     *)
(* stores the byte and a byte read returns the stored byte.                *)
(***************************************************************************)
EXTENDS Integers, Sequences, FiniteSets, TLC

(***************************************************************************)
(* Program constants                                                       *)
(***************************************************************************)
MAX_LOGS == 30
LOG_SIZE == 80
NAME_LENGTH == 32
ID_LENGTH == 8
NAME_START_BLOCK == 4
ID_START_BLOCK == 8
LOG_BASE == 100
EEPROM_BYTES == 4096

(***************************************************************************)
(* Bounds of the exploration                                               *)
(***************************************************************************)
\* operations chosen freely from any state of the opening session
MaxSteps == 2
\* scans of the opening session, which fills a zero-filled store
SessionLen == 31
\* scans of the single-card run
MaxSolo == 31
\* freely chosen scans after a clear, in the runs that follow a clear
MaxRun == 1
\* card operations of the card-programming sketch
MaxProg == 1
\* store functions applied after the self-test of the EEPROM test sketch
MaxTest == 2
\* button presses, scans and commands while the menu is in use
MaxMenu == 5

(***************************************************************************)
(* String literals of the sketch                                           *)
(***************************************************************************)
S_IN == <<73, 78>>
S_OUT == <<79, 85, 84>>
S_Unknown == <<85, 110, 107, 110, 111, 119, 110>>
S_Pipe == <<124>>
S_Slash == <<47>>
S_Space == <<32>>
S_Colon == <<58>>
S_PipeInPipe == S_Pipe \o S_IN \o S_Pipe
S_PipeOutPipe == S_Pipe \o S_OUT \o S_Pipe

Min(a, b) == IF a < b THEN a ELSE b

(***************************************************************************)
(* 16-bit int of the AVR target                                            *)
(***************************************************************************)
ToInt16(v) == LET m == v % 65536 IN IF m >= 32768 THEN m - 65536 ELSE m

\* the values a build may leave in an int after ++ on INT_MAX (signed
\* overflow is undefined): the two's complement wrap and the unchanged value
IncOverflowOutcomes == {-32768, 32767}

IncInt16(v) == IF v = 32767 THEN IncOverflowOutcomes ELSE {v + 1}

(***************************************************************************)
(* Arduino String helpers                                                  *)
(***************************************************************************)
Max(a, b) == IF a > b THEN a ELSE b

\* String::indexOf(sub, fromIndex): first 0-based position >= fromIndex at
\* which sub occurs in s, or -1; -1 when fromIndex is not below the length
IndexOfFrom(s, sub, fromIndex) ==
  LET hits == {k \in fromIndex..(Len(s) - Len(sub)) : SubSeq(s, k + 1, k + Len(sub)) = sub}
  IN IF fromIndex >= Len(s) \/ hits = {} THEN -1
     ELSE CHOOSE k \in hits : \A h \in hits : k <= h

\* String::indexOf(sub)
IndexOf(s, sub) == IndexOfFrom(s, sub, 0)

\* String::substring(left, right): characters left..right-1 (0-based), the
\* bounds swapped when left > right and right cut at the length
Substring(s, left, right) ==
  LET l == Min(left, right)
      r == Min(Max(left, right), Len(s))
  IN IF l >= Len(s) THEN <<>> ELSE SubSeq(s, l + 1, r)

\* String(int) for the non-negative values the clock yields
RECURSIVE DecStr(_)
DecStr(n) == IF n < 10 THEN <<48 + n>> ELSE DecStr(n \div 10) \o <<48 + (n % 10)>>

IsSpace(c) == c = 32 \/ (c >= 9 /\ c <= 13)

\* String::trim(): drops leading and trailing whitespace
Trim(s) ==
  LET keep == {k \in 1..Len(s) : ~IsSpace(s[k])}
  IN IF keep = {} THEN <<>>
     ELSE LET lo == CHOOSE k \in keep : \A h \in keep : k <= h
              hi == CHOOSE k \in keep : \A h \in keep : k >= h
          IN SubSeq(s, lo, hi)

(***************************************************************************)
(* Byte store.  The device is addressed by a high and a low address byte   *)
(* (writeByte and readByte send addr >> 8, then addr & 0xFF), so the store *)
(* is kept as rows of 256 bytes: the byte at addr is element               *)
(* (addr & 0xFF) + 1 of row addr >> 8.                                     *)
(*                                                                         *)
(* The byte writes of an operation are kept as a sequence of runs, in      *)
(* program order: the run <<addr, bytes>> stands for writeByte(addr + i,   *)
(* bytes[i + 1]) for i = 0, 1, ... in that order.                          *)
(***************************************************************************)
AddrHigh(addr) == addr \div 256
AddrLow(addr) == addr % 256

writeByte(addr, data) == <<addr, <<data % 256>>>>

readByte(m, addr) == m[AddrHigh(addr)][AddrLow(addr) + 1]

\* the store after the byte writes of one run
RECURSIVE ApplyRun(_, _, _)
ApplyRun(m, addr, bytes) ==
  IF Len(bytes) = 0 THEN m
  ELSE LET h == AddrHigh(addr)
           l == AddrLow(addr)
           n == Min(Len(bytes), 256 - l)
           row == SubSeq(m[h], 1, l) \o SubSeq(bytes, 1, n) \o SubSeq(m[h], l + n + 1, 256)
       IN IF n = Len(bytes) THEN [m EXCEPT ![h] = row]
          ELSE ApplyRun([m EXCEPT ![h] = row], addr + n, SubSeq(bytes, n + 1, Len(bytes)))

\* the only element of a one-element set
Only(S) == CHOOSE x \in S : TRUE

\* the store after the runs ops[lo..hi], applied in order.  The range is
\* halved, and the store left by the first half is taken from a one-element
\* set, so that the evaluation stays shallow.
RECURSIVE ApplyRange(_, _, _, _)
ApplyRange(m, ops, lo, hi) ==
  IF lo > hi THEN m
  ELSE IF lo = hi THEN ApplyRun(m, ops[lo][1], ops[lo][2])
  ELSE Only({ApplyRange(l, ops, ((lo + hi) \div 2) + 1, hi) :
               l \in {ApplyRange(m, ops, lo, (lo + hi) \div 2)}})

\* the store after the byte writes ops, applied in order
Apply(m, ops) == ApplyRange(m, ops, 1, Len(ops))

\* writeString with the text cut at half a slot
writeString_HalfSlot(addr, str) ==
  <<<<addr, SubSeq(str, 1, Min(Len(str), (LOG_SIZE \div 2) - 1))>>,
    writeByte(addr + Len(str), 0)>>

\* writeString: up to LOG_SIZE-1 characters at addr, addr + 1, ..., then a
\* terminator at addr + str.length()
writeString(addr, str) ==
  <<<<addr, SubSeq(str, 1, Min(Len(str), LOG_SIZE - 1))>>,
    writeByte(addr + Len(str), 0)>>

\* the n bytes stored at addr, addr + 1, ...
RECURSIVE ReadRun(_, _, _)
ReadRun(m, addr, n) ==
  LET h == AddrHigh(addr)
      l == AddrLow(addr)
  IN IF l + n <= 256 THEN SubSeq(m[h], l + 1, l + n)
     ELSE SubSeq(m[h], l + 1, 256) \o ReadRun(m, addr + (256 - l), n - (256 - l))

\* readString that does not stop at a zero byte
readString_NoStop(m, addr, maxLen) == ReadRun(m, addr, maxLen - 1)

\* readString: reads byte after byte and stops at the first zero byte or
\* after maxLen-1 bytes; the result is the bytes before that point
readString(m, addr, maxLen) ==
  LET bytes == ReadRun(m, addr, maxLen - 1)
      zeros == {i \in 1..Len(bytes) : bytes[i] = 0}
  IN IF zeros = {} THEN bytes
     ELSE SubSeq(bytes, 1, (CHOOSE i \in zeros : \A z \in zeros : i <= z) - 1)

HighByte(value) == (value \div 256) % 256
LowByte(value) == value % 256

\* writeInt with the two bytes in the other order
writeInt_LowFirst(addr, value) ==
  <<writeByte(addr, LowByte(value)), writeByte(addr + 1, HighByte(value))>>

\* writeInt: high byte first
writeInt(addr, value) ==
  <<writeByte(addr, HighByte(value)), writeByte(addr + 1, LowByte(value))>>

\* readInt taking the first byte as the low byte
readInt_LowFirst(m, addr) == ToInt16(readByte(m, addr + 1) * 256 + readByte(m, addr))

\* readInt: (high << 8) | low in a 16-bit int
readInt(m, addr) == ToInt16(readByte(m, addr) * 256 + readByte(m, addr + 1))

SlotAddr(index) == LOG_BASE + (index * LOG_SIZE)

\* writeString of the EEPROM test sketch: every character, then the
\* terminator
test_writeString(addr, str) == <<<<addr, str>>, writeByte(addr + Len(str), 0)>>

\* readString of the EEPROM test sketch stopping one byte early
test_readString_OneShort(m, addr, maxLen) == readString(m, addr, maxLen)

\* readString of the EEPROM test sketch: stops at the first zero byte or
\* after maxLen bytes
test_readString(m, addr, maxLen) ==
  LET bytes == ReadRun(m, addr, maxLen)
      zeros == {i \in 1..Len(bytes) : bytes[i] = 0}
  IN IF zeros = {} THEN bytes
     ELSE SubSeq(bytes, 1, (CHOOSE i \in zeros : \A z \in zeros : i <= z) - 1)

\* the byte writes of the self-test in setup of the EEPROM test sketch
S_Hello == <<72, 101, 108, 108, 111>>
test_setupOps == <<writeByte(0, 170), writeByte(1, 85)>> \o test_writeString(10, S_Hello)

\* readLogEntry reading a whole slot of LOG_SIZE bytes
readLogEntry_WholeSlot(m, index) == readString(m, SlotAddr(index), LOG_SIZE + 1)

\* readLogEntry: readString(LOG_BASE + index * LOG_SIZE, LOG_SIZE)
readLogEntry(m, index) == readString(m, SlotAddr(index), LOG_SIZE)

\* the split accepting a record of two '|'
ParseLog_TwoDelimiters(log) ==
  LET pos1 == IndexOfFrom(log, S_Pipe, 0)
      pos2 == IndexOfFrom(log, S_Pipe, pos1 + 1)
  IN IF pos1 > 0 /\ pos2 > pos1
     THEN [ok |-> TRUE, cardID |-> Substring(log, 0, pos1),
           name |-> Substring(log, pos1 + 1, pos2),
           status |-> Substring(log, pos2 + 1, Len(log)),
           dateTime |-> <<>>]
     ELSE [ok |-> FALSE, cardID |-> <<>>, name |-> <<>>, status |-> <<>>,
           dateTime |-> <<>>]

\* the split of a record at its first three '|' as viewLogs and
\* displayLogEntry do it; ok is their condition for showing the record
ParseLog(log) ==
  LET pos1 == IndexOfFrom(log, S_Pipe, 0)
      pos2 == IndexOfFrom(log, S_Pipe, pos1 + 1)
      pos3 == IndexOfFrom(log, S_Pipe, pos2 + 1)
  IN IF pos1 > 0 /\ pos2 > pos1 /\ pos3 > pos2
     THEN [ok |-> TRUE, cardID |-> Substring(log, 0, pos1),
           name |-> Substring(log, pos1 + 1, pos2),
           status |-> Substring(log, pos2 + 1, pos3),
           dateTime |-> Substring(log, pos3 + 1, Len(log))]
     ELSE [ok |-> FALSE, cardID |-> <<>>, name |-> <<>>, status |-> <<>>,
           dateTime |-> <<>>]

\* no line printed
NoLine == <<>>

\* the line viewLogs prints for the record text log: the four fields
\* joined by " | ", or nothing
viewLogsLine(log) ==
  IF Len(log) > 0 /\ ParseLog(log).ok
  THEN ParseLog(log).cardID \o S_Space \o S_Pipe \o S_Space
         \o ParseLog(log).name \o S_Space \o S_Pipe \o S_Space
         \o ParseLog(log).status \o S_Space \o S_Pipe \o S_Space
         \o ParseLog(log).dateTime
  ELSE NoLine

\* String::lastIndexOf(sub): last 0-based position at which sub occurs in
\* s, or -1
LastIndexOf(s, sub) ==
  LET hits == {k \in 0..(Len(s) - Len(sub)) : SubSeq(s, k + 1, k + Len(sub)) = sub}
  IN IF hits = {} THEN -1 ELSE CHOOSE k \in hits : \A h \in hits : k >= h

\* what displayLogEntry(index) puts on the two lines of the display for
\* the record text log of a log that is not empty: shown is FALSE when it
\* returns without writing to the display.  Line 1 is the entry number, a
\* dot and, when the timestamp holds a space, day/month, time and status;
\* line 2 is "name (cardID)", its first 16 characters when it is longer
displayLogEntryLines(log, index) ==
  IF Len(log) > 0 /\ ParseLog(log).ok
  THEN LET p == ParseLog(log)
           spacePos == IndexOf(p.dateTime, S_Space)
           datePart == Substring(p.dateTime, 0, spacePos)
           timePart == Substring(p.dateTime, spacePos + 1, Len(p.dateTime))
           lastSlash == LastIndexOf(datePart, S_Slash)
           dateNoYear == IF lastSlash > 0 THEN Substring(datePart, 0, lastSlash) ELSE <<>>
           secondLine == p.name \o S_Space \o <<40>> \o p.cardID \o <<41>>
       IN [shown |-> TRUE,
           line1 |-> DecStr(index + 1) \o <<46>>
                       \o (IF spacePos > 0
                           THEN dateNoYear \o S_Space \o timePart \o S_Space \o p.status
                           ELSE <<>>),
           line2 |-> Substring(secondLine, 0, Min(Len(secondLine), 16))]
  ELSE [shown |-> FALSE, line1 |-> NoLine, line2 |-> NoLine]

(***************************************************************************)
(* Card reader.  A card is its three data blocks (name in blocks 4 and 5,  *)
(* ID in block 8), 16 bytes each; failed is the set of blocks whose        *)
(* authentication or read does not return STATUS_OK during this scan.      *)
(***************************************************************************)
\* the block buffer filled from the start of the string for every block
BlockBuffer_NoOffset(data, i) ==
  [j \in 1..16 |-> IF j <= Len(data) THEN data[j] ELSE 0]

\* the 16 bytes writeStringToBlocks of the card-programming sketch puts in
\* block startBlock + i for the string data (zero padded)
BlockBuffer(data, i) ==
  [j \in 1..16 |-> IF i * 16 + j <= Len(data) THEN data[i * 16 + j] ELSE 0]

\* a card as writeCardData leaves it
ProgrammedCard(name, id) ==
  [b \in {NAME_START_BLOCK, NAME_START_BLOCK + 1, ID_START_BLOCK} |->
     IF b = ID_START_BLOCK THEN BlockBuffer(id, 0)
     ELSE BlockBuffer(name, b - NAME_START_BLOCK)]

\* inner loop of readCardString: non-zero bytes of buffer are appended
\* while the result is shorter than maxLen
RECURSIVE AppendBuffer(_, _, _, _)
AppendBuffer(result, buffer, maxLen, j) ==
  IF j > 16 \/ Len(result) >= maxLen THEN result
  ELSE AppendBuffer(IF buffer[j] # 0 THEN Append(result, buffer[j]) ELSE result,
                    buffer, maxLen, j + 1)

RECURSIVE readCardBlocks(_, _, _, _, _, _)
readCardBlocks(card, startBlock, maxLen, failed, i, result) ==
  IF i >= (maxLen + 15) \div 16 THEN result
  ELSE LET block == startBlock + i
       IN IF (block + 1) % 4 = 0 \/ block \in failed
          THEN readCardBlocks(card, startBlock, maxLen, failed, i + 1, result)
          ELSE readCardBlocks(card, startBlock, maxLen, failed, i + 1,
                              AppendBuffer(result, card[block], maxLen, 1))

readCardString(card, startBlock, maxLen, failed) ==
  Trim(readCardBlocks(card, startBlock, maxLen, failed, 0, <<>>))

(***************************************************************************)
(* Card-programming sketch.  failed is the set of blocks whose             *)
(* authentication, write or read does not return STATUS_OK; a block whose  *)
(* write is refused keeps its bytes.                                       *)
(***************************************************************************)
\* '\0': no mode selected
NoMode == ""

NAME_BLOCKS == (NAME_LENGTH + 15) \div 16
ID_BLOCKS == (ID_LENGTH + 15) \div 16

\* while (data.length() < maxLength) data += '\0'
PadTo(data, maxLength) ==
  IF Len(data) < maxLength THEN data \o [k \in 1..(maxLength - Len(data)) |-> 0]
  ELSE data

\* the block loop of writeStringToBlocks from block index i on: ok is the
\* value returned, card the card as the loop leaves it
RECURSIVE writeBlocksFrom(_, _, _, _, _, _)
writeBlocksFrom(c, data, startBlock, numBlocks, failed, i) ==
  IF i >= numBlocks THEN [ok |-> TRUE, card |-> c]
  ELSE LET block == startBlock + i
       IN IF (block + 1) % 4 = 0
          THEN writeBlocksFrom(c, data, startBlock, numBlocks, failed, i + 1)
          ELSE IF block \in failed THEN [ok |-> FALSE, card |-> c]
          ELSE writeBlocksFrom([c EXCEPT ![block] = BlockBuffer(data, i)],
                               data, startBlock, numBlocks, failed, i + 1)

writeStringToBlocks(c, data, startBlock, numBlocks, maxLength, failed) ==
  writeBlocksFrom(c, PadTo(data, maxLength), startBlock, numBlocks, failed, 0)

\* the block loop of readStringFromBlocks: "" as soon as a block fails
RECURSIVE readBlocksFrom(_, _, _, _, _, _, _)
readBlocksFrom(c, startBlock, numBlocks, maxLength, failed, i, result) ==
  IF i >= numBlocks THEN result
  ELSE LET block == startBlock + i
       IN IF (block + 1) % 4 = 0
          THEN readBlocksFrom(c, startBlock, numBlocks, maxLength, failed, i + 1, result)
          ELSE IF block \in failed THEN <<>>
          ELSE readBlocksFrom(c, startBlock, numBlocks, maxLength, failed, i + 1,
                              AppendBuffer(result, c[block], maxLength, 1))

readStringFromBlocks(c, startBlock, numBlocks, maxLength, failed) ==
  readBlocksFrom(c, startBlock, numBlocks, maxLength, failed, 0, <<>>)

\* the length checks of writeCardData left out
InputTooLong_Never(name, id) == FALSE

\* the length checks of writeCardData, made on the trimmed strings
InputTooLong(name, id) == Len(name) > NAME_LENGTH \/ Len(id) > ID_LENGTH

\* writeCardData on the lines rawName and rawId (readStringUntil('\n')
\* yields the line without its '\n')
writeCardData(c, rawName, rawId, failed) ==
  LET name == Trim(rawName)
      id == Trim(rawId)
  IN IF InputTooLong(name, id) THEN [ok |-> FALSE, card |-> c, name |-> name, id |-> id]
     ELSE LET n == writeStringToBlocks(c, name, NAME_START_BLOCK, NAME_BLOCKS,
                                       NAME_LENGTH, failed)
              d == writeStringToBlocks(n.card, id, ID_START_BLOCK, ID_BLOCKS,
                                       ID_LENGTH, failed)
          IN IF ~n.ok THEN [ok |-> FALSE, card |-> n.card, name |-> name, id |-> id]
             ELSE [ok |-> d.ok, card |-> d.card, name |-> name, id |-> id]

\* readCardData: the two strings it prints; ok when neither is ""
readCardData(c, failed) ==
  LET name == readStringFromBlocks(c, NAME_START_BLOCK, NAME_BLOCKS, NAME_LENGTH, failed)
      id == readStringFromBlocks(c, ID_START_BLOCK, ID_BLOCKS, ID_LENGTH, failed)
  IN [ok |-> (name # <<>> /\ id # <<>>), card |-> c, name |-> name, id |-> id]

\* eraseCardData that gives up before the first block
eraseCardData_Nothing(c, failed) == [ok |-> TRUE, card |-> c, name |-> <<>>, id |-> <<>>]

\* eraseCardData: empty strings written to the name blocks, then to the
\* ID block
eraseCardData(c, failed) ==
  LET n == writeStringToBlocks(c, <<>>, NAME_START_BLOCK, NAME_BLOCKS, NAME_LENGTH, failed)
      d == writeStringToBlocks(n.card, <<>>, ID_START_BLOCK, ID_BLOCKS, ID_LENGTH, failed)
  IN IF ~n.ok THEN [ok |-> FALSE, card |-> n.card, name |-> <<>>, id |-> <<>>]
     ELSE [ok |-> d.ok, card |-> d.card, name |-> <<>>, id |-> <<>>]

\* the switch on command in loop with every letter selecting write mode
ModeOf_AnyLetter(command) ==
  IF command \in {"r", "R"} THEN "r"
  ELSE IF command \in {"e", "E"} THEN "e"
  ELSE IF command \in {"\n", "1"} THEN NoMode
  ELSE "w"

\* the switch on command in loop, entered with selectedMode == '\0': the
\* value selectedMode has after it
ModeOf(command) ==
  IF command \in {"w", "W"} THEN "w"
  ELSE IF command \in {"r", "R"} THEN "r"
  ELSE IF command \in {"e", "E"} THEN "e"
  ELSE NoMode

\* the end of loop with the mode kept after a failed operation
ModeAfterOperation_KeepOnFailure(mode, ok) == IF ok THEN NoMode ELSE mode

\* selectedMode = '\0' at the end of loop, after the operation of mode
\* returned (ok: it went through)
ModeAfterOperation(mode, ok) == NoMode

(***************************************************************************)
(* Attendance log                                                          *)
(***************************************************************************)
\* what the loop body of getLastStatus returns for one record: a record
\* counts for the card when the card ID occurs anywhere in its text, and
\* "|IN|" is looked for before "|OUT|"; NoStatus when the loop goes on
NoStatus == <<>>

EntryStatus(entry, cardID) ==
  IF IndexOf(entry, cardID) >= 0
  THEN IF IndexOf(entry, S_PipeInPipe) >= 0 THEN S_IN
       ELSE IF IndexOf(entry, S_PipeOutPipe) >= 0 THEN S_OUT
       ELSE NoStatus
  ELSE NoStatus

\* getLastStatus over the records lo..hi, newest first: the status of the
\* first record that yields one, NoStatus when none does
RECURSIVE getLastStatusRange(_, _, _, _)
getLastStatusRange(m, cardID, lo, hi) ==
  IF lo > hi THEN NoStatus
  ELSE IF lo = hi THEN EntryStatus(readLogEntry(m, lo), cardID)
  ELSE LET newer == getLastStatusRange(m, cardID, ((lo + hi) \div 2) + 1, hi)
       IN IF newer # NoStatus THEN newer
          ELSE getLastStatusRange(m, cardID, lo, (lo + hi) \div 2)

\* getLastStatus searching every slot of the store
getLastStatus_AllSlots(m, lc, cardID) ==
  LET found == getLastStatusRange(m, cardID, 0, MAX_LOGS - 1)
  IN IF found # NoStatus THEN found ELSE S_OUT

\* getLastStatus: for (i = logCount - 1; i >= 0; i--), "OUT" when the loop
\* ends without a return
getLastStatus(m, lc, cardID) ==
  LET found == getLastStatusRange(m, cardID, 0, lc - 1)
  IN IF found # NoStatus THEN found ELSE S_OUT

\* shiftLogs for i = lo..hi: record i is copied into slot i-1, each copy
\* reading the store as the earlier copies left it.  The result is the
\* byte writes issued and the store they leave.
RECURSIVE shiftLogsRange(_, _, _)
shiftLogsRange(m, lo, hi) ==
  IF lo > hi THEN [ops |-> <<>>, mem |-> m]
  ELSE IF lo = hi
  THEN LET w == writeString(SlotAddr(lo - 1), readLogEntry(m, lo))
       IN [ops |-> w, mem |-> Apply(m, w)]
  ELSE Only({Only({[ops |-> left.ops \o right.ops, mem |-> right.mem] :
                     right \in {shiftLogsRange(left.mem, ((lo + hi) \div 2) + 1, hi)}}) :
               left \in {shiftLogsRange(m, lo, (lo + hi) \div 2)}})

\* shiftLogs with the loop started one record too late
shiftLogs_FromSecond(m, lc) == shiftLogsRange(m, 2, lc - 1).ops

\* shiftLogs: for (i = 1; i < logCount; i++)
shiftLogs(m, lc) == shiftLogsRange(m, 1, lc - 1).ops

\* the text logEntry builds: CardID|Name|Status|D/M/YY H:M
LogText(cardID, name, status, now) ==
  cardID \o S_Pipe
    \o (IF Len(name) > 0 THEN name ELSE S_Unknown)
    \o S_Pipe \o status \o S_Pipe
    \o DecStr(now.day) \o S_Slash \o DecStr(now.month) \o S_Slash
    \o DecStr(now.year % 100)
    \o S_Space \o DecStr(now.hour) \o S_Colon \o DecStr(now.minute)

\* the timestamp field of that text
TimeText(now) ==
  DecStr(now.day) \o S_Slash \o DecStr(now.month) \o S_Slash \o DecStr(now.year % 100)
    \o S_Space \o DecStr(now.hour) \o S_Colon \o DecStr(now.minute)

\* logEntry with logCount incremented before the record is written
logEntry_IncrementFirst(m, lc, cardID, name, status, now) ==
  LET full == lc >= MAX_LOGS
      shiftOps == IF full THEN shiftLogs(m, lc) ELSE <<>>
      lc2 == (IF full THEN MAX_LOGS - 1 ELSE lc) + 1
      log == LogText(cardID, name, status, now)
  IN [ops |-> shiftOps \o writeString(SlotAddr(lc2), log) \o writeInt(0, lc2),
      logCount |-> lc2,
      log |-> log]

\* logEntry with the logCount header written before the record
logEntry_CountFirst(m, lc, cardID, name, status, now) ==
  LET full == lc >= MAX_LOGS
      shiftOps == IF full THEN shiftLogs(m, lc) ELSE <<>>
      lc1 == IF full THEN MAX_LOGS - 1 ELSE lc
      log == LogText(cardID, name, status, now)
      lc2 == lc1 + 1
  IN [ops |-> shiftOps \o writeInt(0, lc2) \o writeString(SlotAddr(lc1), log),
      logCount |-> lc2,
      log |-> log]

\* logEntry: the byte writes it issues and the logCount it leaves
logEntry(m, lc, cardID, name, status, now) ==
  LET full == lc >= MAX_LOGS
      shiftOps == IF full THEN shiftLogs(m, lc) ELSE <<>>
      lc1 == IF full THEN MAX_LOGS - 1 ELSE lc
      log == LogText(cardID, name, status, now)
      lc2 == lc1 + 1
  IN [ops |-> shiftOps \o writeString(SlotAddr(lc1), log) \o writeInt(0, lc2),
      logCount |-> lc2,
      log |-> log]

\* the inside tally after a scan that logged newStatus
InsideAfter(ic, newStatus) ==
  IF newStatus = S_IN THEN IncInt16(ic)
  ELSE {IF ic - 1 < 0 THEN 0 ELSE ic - 1}

\* clearLogs that also empties the first record slot
clearLogsOps_WipeFirst == writeInt(0, 0) \o writeInt(2, 0) \o <<writeByte(LOG_BASE, 0)>>

\* clearLogs: both counters to zero, both written to the header
clearLogsOps == writeInt(0, 0) \o writeInt(2, 0)

\* setup without the range check of logCount
BootLogCount_NoCheck(m) == readInt(m, 0)

\* boot-time validation of the header (setup)
BootLogCount(m) ==
  LET v == readInt(m, 0) IN IF v < 0 \/ v > MAX_LOGS THEN 0 ELSE v

\* setup without the sign check of insideCount
BootInsideCount_NoCheck(m) == readInt(m, 2)

BootInsideCount(m) ==
  LET v == readInt(m, 2) IN IF v < 0 THEN 0 ELSE v

\* initializeEEPROM of the reworked sketch (uint16_t logCount, int16_t
\* insideCount); its reader readIntFromEEPROM is taken to be readInt
initializeEEPROM(m) ==
  LET lc == readInt(m, 0) % 65536
      ic == ToInt16(readInt(m, 2))
  IN [logCount |-> IF lc > MAX_LOGS THEN 0 ELSE lc,
      insideCount |-> IF ic < 0 THEN 0 ELSE ic]

\* setup going on without the clock
RtcHalts_Never(rtcBegin) == FALSE

\* the clock check of setup: without the clock setup never returns
RtcHalts(rtcBegin) == ~rtcBegin

\* setup: where it ends and the counters it leaves.  logCount and
\* insideCount are 0 when setup starts (their initializers)
BootState(m, rtcBegin) ==
  IF RtcHalts(rtcBegin)
  THEN [pc |-> "halt", logCount |-> 0, insideCount |-> 0]
  ELSE [pc |-> "loop", logCount |-> BootLogCount(m), insideCount |-> BootInsideCount(m)]

\* the validation with && in place of ||
CardDataValid_Both(cardName, cardID) == ~(Len(cardName) = 0 /\ Len(cardID) = 0)

\* the validation of handleRFIDScan: both name and ID must be present
CardDataValid(cardName, cardID) == ~(Len(cardName) = 0 \/ Len(cardID) = 0)

Toggle(lastStatus) == IF lastStatus = S_IN THEN S_OUT ELSE S_IN

(***************************************************************************)
(* Inputs: the cards presented, the blocks that fail, the clock readings,  *)
(* the serial characters and the store contents found at first power-up    *)
(***************************************************************************)
Name_Al == <<65, 108>>
Name_Bo == <<66, 111>>
Name_Ed == <<69, 100>>
Id_A12 == <<65, 49, 50>>
Id_A1 == <<65, 49>>
Id_C7 == <<67, 55>>

\* three programmed cards, an erased card and a card without ID
ValidCards == {ProgrammedCard(Name_Al, Id_A12), ProgrammedCard(Name_Bo, Id_A1),
               ProgrammedCard(S_IN, Id_C7)}
Cards == ValidCards \cup {ProgrammedCard(<<>>, <<>>), ProgrammedCard(Name_Ed, <<>>)}

\* what a scan meets: <<card, blocks failing during the scan>>
Presentations ==
  {<<c, {}>> : c \in Cards}
    \cup {<<ProgrammedCard(Name_Al, Id_A12), f>> :
            f \in {{NAME_START_BLOCK}, {ID_START_BLOCK},
                   {NAME_START_BLOCK, ID_START_BLOCK}}}

\* a name that fills block 4 and reaches into block 5 (20 characters)
Name_Long == <<65, 110, 110, 97, 45, 77, 97, 114, 105, 97, 32, 82, 111, 100, 114, 105,
               103, 117, 101, 122>>
Id_L9 == <<76, 57>>

\* a name of NAME_LENGTH characters, an ID of ID_LENGTH characters, and a
\* name and an ID that hold the field delimiter
Name_32 == <<77, 97, 120, 105, 109, 105, 108, 105, 97, 110, 97, 32, 86, 97, 110, 100,
             101, 114, 98, 105, 108, 116, 45, 72, 111, 119, 97, 114, 100, 32, 73, 73>>
Id_8 == <<69, 77, 80, 48, 48, 48, 52, 50>>
Name_Pipe == <<74, 124, 82>>
Id_D4 == <<68, 52>>
Id_Pipe == <<88, 124, 49>>

\* the cards whose records are decoded
RecordCards ==
  ValidCards \cup {ProgrammedCard(Name_32, Id_8), ProgrammedCard(Name_Pipe, Id_D4),
                   ProgrammedCard(Name_Bo, Id_Pipe)}

\* the data blocks readCardString asks for: the two name blocks and the ID
\* block
DataBlocks == {NAME_START_BLOCK, NAME_START_BLOCK + 1, ID_START_BLOCK}

\* scans during which at least one block fails to authenticate or to read
FaultCards == {ProgrammedCard(Name_Al, Id_A12), ProgrammedCard(Name_Long, Id_L9)}
FaultPresentations == {<<c, f>> : c \in FaultCards, f \in (SUBSET DataBlocks) \ {{}}}

\* clock readings, in chronological order
TimeSeq == <<[year |-> 2025, month |-> 3, day |-> 9, hour |-> 8, minute |-> 5],
             [year |-> 2025, month |-> 11, day |-> 12, hour |-> 17, minute |-> 30]>>
Times == {TimeSeq[k] : k \in 1..Len(TimeSeq)}

\* clock readings of the decoded records
RecordTimes ==
  Times \cup {[year |-> 2025, month |-> 12, day |-> 31, hour |-> 23, minute |-> 59],
              [year |-> 2030, month |-> 1, day |-> 1, hour |-> 0, minute |-> 0]}

TimeIndex(t) == CHOOSE k \in 1..Len(TimeSeq) : TimeSeq[k] = t

Commands == {"v", "c", "s", "t", "x"}

CardIDOf(card) == readCardString(card, ID_START_BLOCK, ID_LENGTH, {})
CardNameOf(card) == readCardString(card, NAME_START_BLOCK, NAME_LENGTH, {})
KnownIDs == {CardIDOf(c) : c \in ValidCards}

NoHistory == [id \in KnownIDs |-> NoStatus]

\* a store never written by the sketch: four header bytes and the fill byte
\* of the rest
RawStore(hdr, fill) ==
  [h \in 0..(AddrHigh(EEPROM_BYTES) - 1) |->
     [l \in 1..256 |-> IF h = 0 /\ l <= 4 THEN hdr[l] ELSE fill]]

\* the stores found at first power-up, as <<header bytes 0..3, fill byte>>:
\* zero-filled, factory-new (all 0xFF), and stores left by another use of
\* the chip
StoreImages ==
  {<<<<0, 0, 0, 0>>, 0>>,
   <<<<255, 255, 255, 255>>, 255>>,
   <<<<0, 30, 0, 1>>, 255>>,
   <<<<0, 30, 127, 255>>, 0>>,
   <<<<0, 31, 0, 0>>, 0>>,
   <<<<0, 0, 127, 255>>, 0>>,
   <<<<0, 7, 255, 255>>, 0>>}

\* values of a header byte at first power-up
HeaderBytes == {0, 30, 31, 127, 128, 255}

(***************************************************************************)
(* handleRFIDScan on a present card, as a function of the state it finds   *)
(***************************************************************************)
ScanEffect(m, lc, card, failed, now) ==
  LET cardName == readCardString(card, NAME_START_BLOCK, NAME_LENGTH, failed)
      cardID == readCardString(card, ID_START_BLOCK, ID_LENGTH, failed)
  IN IF ~CardDataValid(cardName, cardID)
     THEN [valid |-> FALSE, cardID |-> cardID, name |-> cardName,
           status |-> NoStatus, log |-> <<>>, ops |-> <<>>, logCount |-> lc]
     ELSE LET newStatus == Toggle(getLastStatus(m, lc, cardID))
              le == logEntry(m, lc, cardID, cardName, newStatus, now)
          IN [valid |-> TRUE, cardID |-> cardID, name |-> cardName,
              status |-> newStatus, log |-> le.log, ops |-> le.ops,
              logCount |-> le.logCount]

\* the cards of the opening session, scanned in turn
CardSeq == <<ProgrammedCard(Name_Al, Id_A12), ProgrammedCard(Name_Bo, Id_A1),
             ProgrammedCard(S_IN, Id_C7)>>

(***************************************************************************)
(* State                                                                   *)
(***************************************************************************)
VARIABLES
  mem,          \* the byte store
  logCount,     \* int logCount
  insideCount,  \* int insideCount
  lastOp,       \* history: the operation that led to this state
  lastLogged,   \* history: status last logged per card ID since the log was empty
  fresh,        \* history: the log descends from an empty log
  soloN,        \* history: length of the run of scans of one card since the
                \*   log and the tally were zero (-1: no such run)
  soloCard,     \* history: the card ID of that run
  session,      \* number of scans of the opening session (-1: none)
  steps,        \* number of freely chosen operations performed
  rtcPresent,   \* the clock module answered rtc.begin() at the last boot
  pc,           \* "loop": setup has returned; "halt": setup is in while(1);
                \*   "test": the device runs the EEPROM test sketch
  blank,        \* history: since the last clearLogs, the same operations
                \*   carried out on a zero-filled store with an empty log
  menu,         \* currentMenu, menuIndex, inSubMenu and logViewIndex
  lcd,          \* history: what the last operation did to the log view
  panel,        \* the two buttons: the time since lastButtonPress,
                \*   menuButtonPressed and selectButtonPressed, and the history
                \*   of the pin levels, the accepted presses and the last prompt
  selectedMode, \* card-programming sketch: char selectedMode
  cardBlocks,   \* the data blocks of the card at the programming station
  lastProg,     \* history: the last step of the card-programming sketch
  progN,        \* number of card operations of the card-programming sketch
  test          \* history: the store functions applied to the device by hand
                \*   or by the EEPROM test sketch

\* the state of the bench around the attendance terminal
benchVars == <<selectedMode, cardBlocks, lastProg, progN, test>>

\* the state of the attendance terminal
terminalVars == <<mem, logCount, insideCount, lastOp, lastLogged, fresh, soloN, soloCard, session, steps, rtcPresent, pc, blank, menu, lcd, panel>>

vars == <<mem, logCount, insideCount, lastOp, lastLogged, fresh, soloN, soloCard, session, steps, rtcPresent, pc, blank, menu, lcd, panel, selectedMode, cardBlocks, lastProg, progN, test>>

\* handleButtons returns while less than this many milliseconds have passed
\* since lastButtonPress
DEBOUNCE_MS == 200

\* displayClearConfirm waits this long before it reads the buttons
CONFIRM_DELAY_MS == 500

\* displayClearConfirm reads the buttons for this long
CONFIRM_WINDOW_MS == 5000

\* a moment that never comes
Never == -1

\* the result of a poll that did not run displayClearConfirm
NoPrompt == [outcome |-> "none", newPress |-> FALSE, at |-> Never]

\* the button variables as their initializers leave them; setup takes longer
\* than DEBOUNCE_MS, so the first handleButtons call is past the debounce
\* return.  Times are in milliseconds and are capped at DEBOUNCE_MS.
\*   sincePress: the time since lastButtonPress
\*   menuLow, selectLow: history, the pin levels at the last poll
\*   sinceAction: history, the time since the last button action started
\*   gap: history, the shortest time between the starts of two button actions
\*   menuActs, selectActs: history, the actions of the press that is held now
\*   prompt: history, what displayClearConfirm did in the last poll
InitPanel ==
  [sincePress |-> DEBOUNCE_MS, menuButtonPressed |-> FALSE, selectButtonPressed |-> FALSE,
   menuLow |-> FALSE, selectLow |-> FALSE,
   sinceAction |-> DEBOUNCE_MS, gap |-> DEBOUNCE_MS,
   menuActs |-> 0, selectActs |-> 0, prompt |-> NoPrompt]

\* the menu variables as their initializers and setup leave them
InitMenu ==
  [currentMenu |-> "MENU_HOME", menuIndex |-> 0, inSubMenu |-> FALSE, logViewIndex |-> 0]

\* displayHomeScreen
displayHomeScreen(mn) == [mn EXCEPT !.currentMenu = "MENU_HOME"]

\* a step of the log view: op is "open" (View Logs chosen in the menu) or
\* "next" (SELECT in the log view), from the logViewIndex before it, reads
\* the record slots displayLogEntry has read
Lcd(op, from, reads) == [op |-> op, from |-> from, reads |-> reads]

NoLcd == Lcd("none", 0, {})

\* failed: the card blocks that failed during the scan
\* before: logCount when the operation started
Op(op, cardID, name, status, log, failed, now, before) ==
  [op |-> op, cardID |-> cardID, name |-> name, status |-> status, log |-> log,
   failed |-> failed, now |-> now, before |-> before]

NoTime == [year |-> 2000, month |-> 0, day |-> 0, hour |-> 0, minute |-> 0]

BootOp == Op("boot", <<>>, <<>>, NoStatus, <<>>, {}, NoTime, 0)

\* no clearLogs so far
BlankOff ==
  [on |-> FALSE, mem |-> <<>>, logCount |-> 0, insideCount |-> 0, status |-> NoStatus]

\* first power-up on the store with header bytes hdr and fill byte fill
InitOn(hdr, fill) ==
  /\ mem = RawStore(hdr, fill)
  /\ session = IF hdr = <<0, 0, 0, 0>> /\ fill = 0 THEN 0 ELSE -1
  /\ rtcPresent \in BOOLEAN
  /\ pc = BootState(mem, rtcPresent).pc
  /\ logCount = BootState(mem, rtcPresent).logCount
  /\ insideCount = BootState(mem, rtcPresent).insideCount
  /\ lastOp = BootOp
  /\ lastLogged = NoHistory
  /\ fresh = (pc = "loop" /\ logCount = 0)
  /\ soloN = IF pc = "loop" /\ logCount = 0 /\ insideCount = 0 THEN 0 ELSE -1
  /\ soloCard = <<>>
  /\ steps = 0
  /\ blank = BlankOff
  /\ menu = InitMenu
  /\ lcd = NoLcd
  /\ panel = InitPanel

\* a card whose data blocks hold zeros
BlankCard == ProgrammedCard(<<>>, <<>>)

\* a step of the card-programming sketch: op is "select" (a character was
\* read with no mode selected) or the mode of the card operation; rawName
\* and rawId are the lines received, name and id the strings after trim()
\* (in read mode: the strings read); before is the card as it was, scans
\* the number of attendance scans made so far
Prog(op, cmd, ok, rawName, rawId, name, id, failed, before, scans) ==
  [op |-> op, cmd |-> cmd, ok |-> ok, rawName |-> rawName, rawId |-> rawId,
   name |-> name, id |-> id, failed |-> failed, before |-> before, scans |-> scans]

NoProg == Prog("none", "", FALSE, <<>>, <<>>, <<>>, <<>>, {}, BlankCard, 0)

\* a store function applied: op is "writeByte" or "writeString", addr and
\* str its arguments (str holds the byte of writeByte); singles are the
\* <<address, byte>> written by writeByte that no later call had
\* overwritten when op started; n counts the calls
Test(op, addr, str, singles, n) ==
  [op |-> op, addr |-> addr, str |-> str, singles |-> singles, n |-> n]

NoTest == Test("none", 0, <<>>, {}, 0)

\* the programming station after its setup, a blank card at hand
InitBench ==
  /\ selectedMode = NoMode
  /\ cardBlocks = BlankCard
  /\ lastProg = NoProg
  /\ progN = 0
  /\ test = NoTest

Init == (\E img \in StoreImages : InitOn(img[1], img[2])) /\ InitBench

(***************************************************************************)
(* Operations                                                              *)
(***************************************************************************)
\* the same scan on the zero-filled store of blank: the records blank may
\* become
BlankScan(b, card, failed, now) ==
  LET e == ScanEffect(b.mem, b.logCount, card, failed, now)
  IN IF ~b.on \/ ~e.valid THEN {b}
     ELSE {[on |-> TRUE, mem |-> Apply(b.mem, e.ops \o writeInt(2, ic)),
            logCount |-> e.logCount, insideCount |-> ic, status |-> e.status] :
             ic \in InsideAfter(b.insideCount, e.status)}

\* handleRFIDScan with a card in the field; the effect is bound once, as the
\* element of a one-element set, and used by every conjunct
ScanBody(card, failed, now) ==
  \E e \in {ScanEffect(mem, logCount, card, failed, now)} :
     IF ~e.valid
     THEN /\ lastOp' = Op("denied", e.cardID, e.name, NoStatus, <<>>, failed, NoTime, logCount)
          /\ soloN' = -1
          /\ menu' = displayHomeScreen(menu)
          /\ lcd' = NoLcd
          /\ UNCHANGED <<mem, logCount, insideCount, lastLogged, fresh, soloCard, blank>>
          /\ UNCHANGED <<benchVars, panel>>
     ELSE \E ic \in InsideAfter(insideCount, e.status) :
            /\ mem' = Apply(mem, e.ops \o writeInt(2, ic))
            /\ logCount' = e.logCount
            /\ insideCount' = ic
            /\ blank' \in BlankScan(blank, card, failed, now)
            /\ menu' = displayHomeScreen(menu)
            /\ lcd' = NoLcd
            /\ UNCHANGED <<benchVars, panel>>
            /\ lastOp' = Op("scan", e.cardID, e.name, e.status, e.log, failed, now, logCount)
            /\ lastLogged' = [lastLogged EXCEPT ![e.cardID] = e.status]
            /\ soloN' = IF soloN = 0 \/ (soloN > 0 /\ soloCard = e.cardID)
                        THEN soloN + 1 ELSE -1
            /\ soloCard' = IF soloN = 0 THEN e.cardID ELSE soloCard
            /\ UNCHANGED fresh

\* a scan is either one of the opening session (the cards take turns on a
\* zero-filled store) or a freely chosen one
SessionScan ==
  /\ pc = "loop"
  /\ steps = 0
  /\ session >= 0
  /\ session < SessionLen
  /\ session' = session + 1
  /\ UNCHANGED <<steps, rtcPresent, pc>>
  /\ ScanBody(CardSeq[(session % Len(CardSeq)) + 1], {}, TimeSeq[1])

FreeScan ==
  /\ pc = "loop"
  /\ steps < MaxSteps
  /\ steps' = steps + 1
  /\ UNCHANGED <<session, rtcPresent, pc>>
  /\ \E p \in Presentations, now \in Times : ScanBody(p[1], p[2], now)

handleRFIDScan == SessionScan \/ FreeScan

\* clearLogs
clearLogs ==
  /\ mem' = Apply(mem, clearLogsOps)
  /\ logCount' = 0
  /\ insideCount' = 0
  /\ lastLogged' = NoHistory
  /\ fresh' = TRUE
  /\ soloN' = 0
  /\ soloCard' = <<>>
  /\ blank' = [on |-> TRUE, mem |-> RawStore(<<0, 0, 0, 0>>, 0), logCount |-> 0,
               insideCount |-> 0, status |-> NoStatus]

\* handleSerialCommands with a character available
\* the switch with 's' reaching clearLogs too
CommandClears_AlsoS(cmd) == cmd \in {"c", "s"}

\* the switch of handleSerialCommands: the characters that reach clearLogs
CommandClears(cmd) == cmd = "c"

\* the switch of handleSerialCommands on the character cmd: 'v', 's' and
\* 't' print or set the clock, any other character falls through
SerialCommand(cmd) ==
  /\ UNCHANGED <<benchVars, panel>>
  /\ UNCHANGED menu
  /\ lcd' = NoLcd
  /\ lastOp' = Op(IF CommandClears(cmd) THEN "clear" ELSE "cmd", <<>>, <<>>, NoStatus,
                  <<>>, {}, NoTime, logCount)
  /\ IF CommandClears(cmd) THEN clearLogs
     ELSE /\ soloN' = -1
          /\ UNCHANGED <<mem, logCount, insideCount, lastLogged, fresh, soloCard, blank>>

handleSerialCommands ==
  /\ pc = "loop"
  /\ steps < MaxSteps
  /\ steps' = steps + 1
  /\ UNCHANGED <<session, rtcPresent, pc>>
  /\ \E cmd \in Commands : SerialCommand(cmd)

\* power cycle followed by setup
setup ==
  /\ steps < MaxSteps
  /\ steps' = steps + 1
  /\ \E rtcBegin \in BOOLEAN :
       /\ rtcPresent' = rtcBegin
       /\ pc' = BootState(mem, rtcBegin).pc
       /\ logCount' = BootState(mem, rtcBegin).logCount
       /\ insideCount' = BootState(mem, rtcBegin).insideCount
       /\ blank' = IF blank.on
                   THEN [blank EXCEPT !.logCount = BootState(blank.mem, rtcBegin).logCount,
                                      !.insideCount = BootState(blank.mem, rtcBegin).insideCount]
                   ELSE blank
  /\ lastOp' = BootOp
  /\ soloN' = -1
  /\ menu' = InitMenu
  /\ lcd' = NoLcd
  /\ panel' = InitPanel
  /\ UNCHANGED <<mem, lastLogged, fresh, soloCard, session>>
  /\ UNCHANGED benchVars

Next == handleRFIDScan \/ handleSerialCommands \/ setup

Spec == Init /\ [][Next]_vars

(***************************************************************************)
(* The single-card run: from an empty log and a zero tally, one card is    *)
(* scanned again and again, nothing else happens, the clock never goes     *)
(* back                                                                    *)
(***************************************************************************)
SoloScan ==
  /\ pc = "loop"
  /\ soloN >= 0
  /\ soloN < MaxSolo
  /\ UNCHANGED <<steps, session, rtcPresent, pc>>
  /\ \E card \in ValidCards, now \in Times :
       /\ IF soloN = 0 THEN TRUE
          ELSE /\ CardIDOf(card) = soloCard
               /\ TimeIndex(now) >= TimeIndex(lastOp.now)
       /\ ScanBody(card, {}, now)

NextSolo == SoloScan

SpecSolo == Init /\ [][NextSolo]_vars

(***************************************************************************)
(* Runs after a clear: the opening session is cleared at some point with   *)
(* the 'c' command and goes on, or freely chosen cards are scanned         *)
(***************************************************************************)
ClearCommand ==
  /\ pc = "loop"
  /\ ~blank.on
  /\ steps = 0
  /\ UNCHANGED <<steps, session, rtcPresent, pc>>
  /\ SerialCommand("c")

ClearedScan ==
  /\ pc = "loop"
  /\ blank.on
  /\ steps < MaxRun
  /\ steps' = steps + 1
  /\ UNCHANGED <<session, rtcPresent, pc>>
  /\ \E card \in ValidCards, now \in Times : ScanBody(card, {}, now)

NextClear == SessionScan \/ ClearCommand \/ ClearedScan

SpecClear == Init /\ [][NextClear]_vars

(***************************************************************************)
(* Power loss during an append: the supply fails in logEntry after         *)
(* writeString has returned and before writeInt(0, logCount) writes the    *)
(* header; the device is then powered up again with its clock in place     *)
(***************************************************************************)
InterruptedAppend ==
  /\ pc = "loop"
  /\ steps < MaxSteps
  /\ steps' = steps + 1
  /\ UNCHANGED <<session, rtcPresent, pc, lastLogged, soloCard>>
  /\ \E card \in ValidCards, now \in Times :
       LET e == ScanEffect(mem, logCount, card, {}, now)
           written == SubSeq(e.ops, 1, Len(e.ops) - Len(writeInt(0, e.logCount)))
       IN /\ mem' = Apply(mem, written)
          /\ lastOp' = Op("crash", e.cardID, e.name, e.status, e.log, {}, now, logCount)
  /\ logCount' = BootState(mem', TRUE).logCount
  /\ insideCount' = BootState(mem', TRUE).insideCount
  /\ fresh' = (fresh /\ logCount < MAX_LOGS)
  /\ soloN' = -1
  /\ blank' = BlankOff
  /\ menu' = InitMenu
  /\ lcd' = NoLcd
  /\ panel' = InitPanel
  /\ UNCHANGED benchVars

\* the first scan after the power loss
RecoveryScan ==
  /\ pc = "loop"
  /\ lastOp.op = "crash"
  /\ steps < MaxSteps
  /\ steps' = steps + 1
  /\ UNCHANGED <<session, rtcPresent, pc>>
  /\ \E card \in ValidCards, now \in Times : ScanBody(card, {}, now)

NextPower == SessionScan \/ InterruptedAppend \/ RecoveryScan

SpecPower == Init /\ [][NextPower]_vars

(***************************************************************************)
(* Boot on any header: first power-up on a store whose four header bytes   *)
(* take the values of HeaderBytes, then power cycles                       *)
(***************************************************************************)
InitBoot ==
  /\ \E b0 \in HeaderBytes, b1 \in HeaderBytes, b2 \in HeaderBytes, b3 \in HeaderBytes :
       InitOn(<<b0, b1, b2, b3>>, 0)
  /\ InitBench

NextBoot == setup

SpecBoot == InitBoot /\ [][NextBoot]_vars

(***************************************************************************)
(* Records of cards with long fields and with '|' in a field               *)
(***************************************************************************)
RecordScan ==
  /\ pc = "loop"
  /\ steps < MaxSteps
  /\ steps' = steps + 1
  /\ UNCHANGED <<session, rtcPresent, pc>>
  /\ \E card \in RecordCards, now \in RecordTimes : ScanBody(card, {}, now)

NextRecord == RecordScan

SpecRecord == Init /\ [][NextRecord]_vars

(***************************************************************************)
(* Scans with failing card blocks                                          *)
(***************************************************************************)
FaultyScan ==
  /\ pc = "loop"
  /\ steps < MaxSteps
  /\ steps' = steps + 1
  /\ UNCHANGED <<session, rtcPresent, pc>>
  /\ \E p \in FaultPresentations, now \in Times : ScanBody(p[1], p[2], now)

NextFault == FaultyScan

SpecFault == Init /\ [][NextFault]_vars

(***************************************************************************)
(* The LCD menu: the MENU and SELECT buttons, scans and serial commands    *)
(***************************************************************************)
\* SELECT in the log view with the index stepped without wrapping
NextLogViewIndex_NoWrap(index, lc) == index + 1

\* SELECT in the log view: (logViewIndex + 1) % max(1, logCount)
NextLogViewIndex(index, lc) == (index + 1) % Max(1, lc)

\* the record slots displayLogEntry(index) reads: none on an empty log
displayLogEntryReads(lc, index) == IF lc = 0 THEN {} ELSE {index}

\* the record slots getLastStatus reads: from logCount-1 down to the first
\* record that makes it return, or down to 0
getLastStatusReads(m, lc, cardID) ==
  LET hits == {i \in 0..(lc - 1) : EntryStatus(readLogEntry(m, i), cardID) # NoStatus}
  IN IF hits = {} THEN 0..(lc - 1)
     ELSE (CHOOSE i \in hits : \A h \in hits : i >= h)..(lc - 1)

\* the record slots viewLogs reads: for (i = 0; i < logCount; i++)
viewLogsReads(lc) == 0..(lc - 1)

\* the record slots shiftLogs reads: for (i = 1; i < logCount; i++)
shiftLogsReads(lc) == 1..(lc - 1)

\* the record slots a valid scan reads: getLastStatus, then shiftLogs when
\* logEntry finds the log full
ScanReads(m, lc, cardID) ==
  getLastStatusReads(m, lc, cardID)
    \cup (IF lc >= MAX_LOGS THEN shiftLogsReads(lc) ELSE {})

\* a button press that leaves the store and the counters alone
ButtonOnly(mn, l) ==
  /\ menu' = mn
  /\ lcd' = l
  /\ lastOp' = Op("button", <<>>, <<>>, NoStatus, <<>>, {}, NoTime, logCount)
  /\ soloN' = -1
  /\ UNCHANGED <<mem, logCount, insideCount, lastLogged, fresh, soloCard, blank>>

\* executeMenuAction; in displayClearConfirm SELECT is seen LOW (confirm)
\* or MENU is, or the five seconds pass
executeMenuAction ==
  IF menu.menuIndex = 0
  THEN ButtonOnly([menu EXCEPT !.currentMenu = "MENU_VIEW_LOGS", !.inSubMenu = TRUE,
                               !.logViewIndex = 0],
                  Lcd("open", menu.logViewIndex, displayLogEntryReads(logCount, 0)))
  ELSE IF menu.menuIndex = 2
  THEN \E confirm \in BOOLEAN :
         IF confirm
         THEN /\ clearLogs
              /\ menu' = displayHomeScreen(menu)
              /\ lcd' = NoLcd
              /\ lastOp' = Op("clear", <<>>, <<>>, NoStatus, <<>>, {}, NoTime, logCount)
         ELSE ButtonOnly(displayHomeScreen(menu), NoLcd)
  ELSE ButtonOnly(displayHomeScreen(menu), NoLcd)

\* handleButtons with the MENU button pressed
MenuButton ==
  /\ pc = "loop"
  /\ steps < MaxMenu
  /\ steps' = steps + 1
  /\ UNCHANGED <<session, rtcPresent, pc>>
  /\ UNCHANGED <<benchVars, panel>>
  /\ IF menu.inSubMenu
     THEN ButtonOnly(displayHomeScreen([menu EXCEPT !.inSubMenu = FALSE,
                                                    !.logViewIndex = 0]), NoLcd)
     ELSE ButtonOnly([menu EXCEPT !.menuIndex = (menu.menuIndex + 1) % 5], NoLcd)

\* handleButtons with the SELECT button pressed
SelectButton ==
  /\ pc = "loop"
  /\ steps < MaxMenu
  /\ steps' = steps + 1
  /\ UNCHANGED <<session, rtcPresent, pc>>
  /\ UNCHANGED <<benchVars, panel>>
  /\ IF ~menu.inSubMenu THEN executeMenuAction
     ELSE IF menu.currentMenu = "MENU_VIEW_LOGS"
     THEN ButtonOnly([menu EXCEPT !.logViewIndex = NextLogViewIndex(menu.logViewIndex, logCount)],
                     Lcd("next", menu.logViewIndex,
                         displayLogEntryReads(logCount,
                                              NextLogViewIndex(menu.logViewIndex, logCount))))
     ELSE ButtonOnly(menu, NoLcd)

\* a card is scanned while the menu is in use
MenuScan ==
  /\ pc = "loop"
  /\ steps < MaxMenu
  /\ steps' = steps + 1
  /\ UNCHANGED <<session, rtcPresent, pc>>
  /\ \E k \in 1..2 : ScanBody(CardSeq[k], {}, TimeSeq[1])

\* 'c' or 'v' is received while the menu is in use
MenuCommand ==
  /\ pc = "loop"
  /\ steps < MaxMenu
  /\ steps' = steps + 1
  /\ UNCHANGED <<session, rtcPresent, pc>>
  /\ \E cmd \in {"c", "v"} : SerialCommand(cmd)

\* the terminal has booted on a zero-filled store, on a store whose header
\* gives three records, or on a 0xFF-filled store whose header gives a
\* full log
InitView ==
  /\ \E img \in {<<<<0, 0, 0, 0>>, 0>>, <<<<0, 3, 0, 1>>, 0>>, <<<<0, 30, 0, 1>>, 255>>} :
       InitOn(img[1], img[2])
  /\ rtcPresent
  /\ InitBench

NextView == MenuButton \/ SelectButton \/ MenuScan \/ MenuCommand

SpecView == InitView /\ [][NextView]_vars

(***************************************************************************)
(* Power lost between two byte writes of a scan                            *)
(***************************************************************************)
\* the number of byte writes of the runs ops
RECURSIVE ByteCount(_)
ByteCount(ops) == IF ops = <<>> THEN 0 ELSE Len(ops[1][2]) + ByteCount(Tail(ops))

\* the first k byte writes of the runs ops
RECURSIVE FirstWrites(_, _)
FirstWrites(ops, k) ==
  IF k <= 0 \/ ops = <<>> THEN <<>>
  ELSE IF Len(ops[1][2]) >= k THEN <<<<ops[1][1], SubSeq(ops[1][2], 1, k)>>>>
  ELSE <<ops[1]>> \o FirstWrites(Tail(ops), k - Len(ops[1][2]))

\* a valid scan on a log that is not full loses power after k of its byte
\* writes, at least one and not all of them; the device then boots
TornScan ==
  /\ pc = "loop"
  /\ steps = 0
  /\ steps' = 1
  /\ logCount < MAX_LOGS
  /\ UNCHANGED <<session, rtcPresent, pc, lastLogged, soloCard>>
  /\ \E card \in ValidCards :
       LET e == ScanEffect(mem, logCount, card, {}, TimeSeq[2])
       IN \E ic \in InsideAfter(insideCount, e.status) :
            \E k \in 1..(ByteCount(e.ops \o writeInt(2, ic)) - 1) :
              /\ mem' = Apply(mem, FirstWrites(e.ops \o writeInt(2, ic), k))
              /\ lastOp' = Op("torn", e.cardID, e.name, e.status, e.log, {}, TimeSeq[2],
                              logCount)
  /\ logCount' = BootState(mem', TRUE).logCount
  /\ insideCount' = BootState(mem', TRUE).insideCount
  /\ fresh' = FALSE
  /\ soloN' = -1
  /\ blank' = BlankOff
  /\ menu' = InitMenu
  /\ lcd' = NoLcd
  /\ panel' = InitPanel
  /\ UNCHANGED benchVars

\* first power-up as in Init, and on a store whose header bytes another
\* use of the chip left at 7F 1E
InitTorn ==
  /\ \E img \in StoreImages \cup {<<<<127, 30, 0, 0>>, 0>>} : InitOn(img[1], img[2])
  /\ InitBench

NextTorn == SessionScan \/ TornScan

SpecTorn == InitTorn /\ [][NextTorn]_vars

(***************************************************************************)
(* The programming station and the attendance terminal: a card is written, *)
(* read or erased at the station and scanned at the terminal               *)
(***************************************************************************)
\* characters received while no mode is selected
ProgCommands == {"w", "W", "r", "R", "e", "E", "x", "1", "\n"}

\* a name of NAME_LENGTH + 1 characters, an ID of ID_LENGTH + 1 characters
Name_33 == Name_32 \o <<73>>
Id_9 == Id_8 \o <<57>>

\* the lines received in write mode, as <<name line, ID line>>: with and
\* without a carriage return or blanks around the text, of the greatest
\* lengths accepted, one character longer, blank and empty
EnteredLines ==
  {<<Name_Al, Id_A12>>,
   <<Name_Al \o <<13>>, Id_8 \o <<13>>>>,
   <<Name_32, <<32>> \o Id_8>>,
   <<<<32>> \o Name_32 \o <<13>>, Id_A12>>,
   <<Name_33, Id_A12>>,
   <<Name_Al, Id_9>>,
   <<<<32, 32>>, Id_A12>>,
   <<Name_Al, <<>>>>}

\* the blocks refused during a card operation
ProgFaults == {{}, {NAME_START_BLOCK + 1}, {ID_START_BLOCK}}

\* the cards brought to the station
StartCards == {BlankCard, ProgrammedCard(Name_Long, Id_L9)}

\* one pass of loop with no mode selected and a character received
SelectMode ==
  /\ selectedMode = NoMode
  /\ \E command \in ProgCommands :
       /\ selectedMode' = ModeOf(command)
       /\ lastProg' = Prog("select", command, ModeOf(command) # NoMode, <<>>, <<>>,
                           <<>>, <<>>, {}, cardBlocks, steps)
  /\ UNCHANGED <<cardBlocks, progN, test>>
  /\ UNCHANGED terminalVars

\* one pass of loop with a mode selected and the card detected
CardOperation ==
  /\ selectedMode # NoMode
  /\ progN < MaxProg
  /\ progN' = progN + 1
  /\ \E lines \in (IF selectedMode = "w" THEN EnteredLines ELSE {<<<<>>, <<>>>>}),
        failed \in ProgFaults :
       LET r == IF selectedMode = "w"
                THEN writeCardData(cardBlocks, lines[1], lines[2], failed)
                ELSE IF selectedMode = "r" THEN readCardData(cardBlocks, failed)
                ELSE eraseCardData(cardBlocks, failed)
       IN /\ cardBlocks' = r.card
          /\ selectedMode' = ModeAfterOperation(selectedMode, r.ok)
          /\ lastProg' = Prog(selectedMode, selectedMode, r.ok, lines[1], lines[2],
                              r.name, r.id, failed, cardBlocks, steps)
  /\ UNCHANGED test
  /\ UNCHANGED terminalVars

\* the card of the station is scanned at the terminal
AttendScan ==
  /\ pc = "loop"
  /\ steps < MaxSteps
  /\ steps' = steps + 1
  /\ UNCHANGED <<session, rtcPresent, pc>>
  /\ ScanBody(cardBlocks, {}, TimeSeq[1])

\* the terminal runs on a store that holds seven records and a tally of 3
InitProg ==
  /\ InitOn(<<0, 7, 0, 3>>, 255)
  /\ rtcPresent
  /\ selectedMode = NoMode
  /\ cardBlocks \in StartCards
  /\ lastProg = NoProg
  /\ progN = 0
  /\ test = NoTest

NextProg == SelectMode \/ CardOperation \/ AttendScan

SpecProg == InitProg /\ [][NextProg]_vars

(***************************************************************************)
(* The EEPROM test sketch on the device: setup has run its self-test, then *)
(* writeByte and writeString are applied at addresses of the device        *)
(***************************************************************************)
\* addresses: the two bytes and the string of the self-test, the byte after
\* that string, the end of a 256-byte row, the end of the device
TestAddrs == {0, 1, 10, 15, 252, EEPROM_BYTES - 6}
TestBytes == {170, 255}

\* the texts received by the 'w' command: empty, with a line ending, with
\* bytes above 127, and of 32 characters
TestTexts == {<<>>, S_Hello \o <<13, 10>>, <<255, 128, 1>>, Name_32}

\* the bytes written by writeByte that the last call has left alone
SinglesLeft ==
  IF test.op = "writeString"
  THEN {p \in test.singles : p[1] < test.addr \/ p[1] > test.addr + Len(test.str)}
  ELSE {p \in test.singles : p[1] # test.addr} \cup {<<test.addr, test.str[1]>>}

TestWriteByte ==
  /\ pc = "test"
  /\ test.n < MaxTest
  /\ \E addr \in TestAddrs, data \in TestBytes :
       /\ mem' = Apply(mem, <<writeByte(addr, data)>>)
       /\ test' = Test("writeByte", addr, <<data>>, SinglesLeft, test.n + 1)
  /\ UNCHANGED <<logCount, insideCount, lastOp, lastLogged, fresh, soloN, soloCard, session, steps, rtcPresent, pc, blank, menu, lcd, panel>>
  /\ UNCHANGED <<selectedMode, cardBlocks, lastProg, progN>>

\* the 'w' command of loop: writeString(addr, text) with the text trimmed
TestWriteString ==
  /\ pc = "test"
  /\ test.n < MaxTest
  /\ \E addr \in TestAddrs, text \in TestTexts :
       /\ addr + Len(Trim(text)) < EEPROM_BYTES
       /\ mem' = Apply(mem, test_writeString(addr, Trim(text)))
       /\ test' = Test("writeString", addr, Trim(text), SinglesLeft, test.n + 1)
  /\ UNCHANGED <<logCount, insideCount, lastOp, lastLogged, fresh, soloN, soloCard, session, steps, rtcPresent, pc, blank, menu, lcd, panel>>
  /\ UNCHANGED <<selectedMode, cardBlocks, lastProg, progN>>

\* the device after setup of the EEPROM test sketch, on a zero-filled or a
\* factory-new store
InitTest ==
  /\ \E fill \in {0, 255} : mem = Apply(RawStore(<<fill, fill, fill, fill>>, fill), test_setupOps)
  /\ test = Test("writeString", 10, S_Hello, {<<0, 170>>, <<1, 85>>}, 0)
  /\ pc = "test"
  /\ logCount = 0
  /\ insideCount = 0
  /\ lastOp = BootOp
  /\ lastLogged = NoHistory
  /\ fresh = FALSE
  /\ soloN = -1
  /\ soloCard = <<>>
  /\ session = -1
  /\ steps = 0
  /\ rtcPresent = TRUE
  /\ blank = BlankOff
  /\ menu = InitMenu
  /\ lcd = NoLcd
  /\ panel = InitPanel
  /\ selectedMode = NoMode
  /\ cardBlocks = BlankCard
  /\ lastProg = NoProg
  /\ progN = 0

NextTest == TestWriteByte \/ TestWriteString

SpecTest == InitTest /\ [][NextTest]_vars

(***************************************************************************)
(* writeString of the attendance sketch applied to a string at the address *)
(* of a record slot                                                        *)
(***************************************************************************)
\* a text of n characters
TextOf(n) == [k \in 1..n |-> 65 + (k % 26)]

\* lengths around LOG_SIZE, and the length of a record of the log
WriteLengths == {0, 20, LOG_SIZE - 2, LOG_SIZE - 1, LOG_SIZE, LOG_SIZE + 1, LOG_SIZE + 40}

WriteAddrs == {SlotAddr(0), SlotAddr(6), SlotAddr(MAX_LOGS - 1)}

WriteStringAt ==
  /\ pc = "loop"
  /\ test.op = "none"
  /\ \E addr \in WriteAddrs, n \in WriteLengths :
       /\ mem' = Apply(mem, writeString(addr, TextOf(n)))
       /\ test' = Test("writeString", addr, TextOf(n), {}, 1)
  /\ UNCHANGED <<logCount, insideCount, lastOp, lastLogged, fresh, soloN, soloCard, session, steps, rtcPresent, pc, blank, menu, lcd, panel>>
  /\ UNCHANGED <<selectedMode, cardBlocks, lastProg, progN>>

NextWrite == WriteStringAt

SpecWrite == Init /\ [][NextWrite]_vars

(***************************************************************************)
(* Records of the longest fields a card and the clock can give             *)
(***************************************************************************)
\* a card whose ID block is filled to its 16th byte, and two cards of the
\* opening session
FitCards ==
  {ProgrammedCard(Name_32, TextOf(16)), ProgrammedCard(Name_Al, Id_A12),
   ProgrammedCard(Name_Bo, Id_A1)}

\* a reading of one-digit fields and a reading of two-digit fields
FitTimes ==
  {TimeSeq[1], [year |-> 2025, month |-> 12, day |-> 31, hour |-> 23, minute |-> 59]}

FitScan ==
  /\ pc = "loop"
  /\ steps < MaxSteps
  /\ steps' = steps + 1
  /\ UNCHANGED <<session, rtcPresent, pc>>
  /\ \E card \in FitCards, now \in FitTimes : ScanBody(card, {}, now)

NextFit == FitScan

SpecFit == Init /\ [][NextFit]_vars

(***************************************************************************)
(* writeString into a record slot, then readLogEntry of that slot          *)
(***************************************************************************)
\* texts without a zero byte: empty, of the length of a record, and of
\* LOG_SIZE-1 characters; letters, and the byte 0xFF throughout
SlotTexts ==
  {TextOf(n) : n \in {0, 20, LOG_SIZE - 1}}
    \cup {[k \in 1..n |-> 255] : n \in {20, LOG_SIZE - 1}}

SlotWrite ==
  /\ pc = "loop"
  /\ test.n < MaxTest
  /\ \E i \in {0, MAX_LOGS - 1}, s \in SlotTexts :
       /\ mem' = Apply(mem, writeString(SlotAddr(i), s))
       /\ test' = Test("slotWrite", SlotAddr(i), s, {}, test.n + 1)
  /\ UNCHANGED <<logCount, insideCount, lastOp, lastLogged, fresh, soloN, soloCard, session, steps, rtcPresent, pc, blank, menu, lcd, panel>>
  /\ UNCHANGED <<selectedMode, cardBlocks, lastProg, progN>>

NextSlot == SlotWrite

SpecSlot == Init /\ [][NextSlot]_vars

(***************************************************************************)
(* Records of different lengths written to the same slot: scans of the     *)
(* cards of FitCards, each of which the 'c' command may follow             *)
(***************************************************************************)
PadClear ==
  /\ pc = "loop"
  /\ lastOp.op = "scan"
  /\ UNCHANGED <<steps, session, rtcPresent, pc>>
  /\ SerialCommand("c")

NextPad == FitScan \/ PadClear

SpecPad == Init /\ [][NextPad]_vars

(***************************************************************************)
(* writeInt, then readInt at the same address                              *)
(***************************************************************************)
\* counts of one byte, of two bytes, and the largest 16-bit int
IntValues == {0, 1, 255, 256, 32767}

\* the two header fields, and an address whose second byte lies in the
\* next 256-byte page
IntAddrs == {0, 2, 255}

\* str holds the value written
WriteIntAt ==
  /\ pc = "loop"
  /\ test.n < MaxTest
  /\ \E addr \in IntAddrs, v \in IntValues :
       /\ mem' = Apply(mem, writeInt(addr, v))
       /\ test' = Test("writeInt", addr, <<v>>, {}, test.n + 1)
  /\ UNCHANGED <<logCount, insideCount, lastOp, lastLogged, fresh, soloN, soloCard, session, steps, rtcPresent, pc, blank, menu, lcd, panel>>
  /\ UNCHANGED <<selectedMode, cardBlocks, lastProg, progN>>

NextInt == WriteIntAt

SpecInt == Init /\ [][NextInt]_vars

(***************************************************************************)
(* The log view and the 'v' command on a store left by another use of the  *)
(* chip, whose header gives five records: a record of four fields, one     *)
(* with an empty first field, one of three fields, one without a '|', and  *)
(* an empty one                                                            *)
(***************************************************************************)
ParseTexts ==
  <<LogText(Id_A12, Name_Al, S_IN, TimeSeq[1]),
    S_Pipe \o Name_Al \o S_Pipe \o S_IN \o S_Pipe \o TimeText(TimeSeq[1]),
    Id_A12 \o S_Pipe \o Name_Al \o S_Pipe \o S_IN,
    Id_A12,
    <<>>>>

ParseStore ==
  Apply(RawStore(<<0, Len(ParseTexts), 0, 1>>, 0),
        writeString(SlotAddr(0), ParseTexts[1]) \o writeString(SlotAddr(1), ParseTexts[2])
          \o writeString(SlotAddr(2), ParseTexts[3])
          \o writeString(SlotAddr(3), ParseTexts[4])
          \o writeString(SlotAddr(4), ParseTexts[5]))

\* first power-up on that store, the clock in place
InitParse ==
  /\ mem = ParseStore
  /\ session = -1
  /\ rtcPresent = TRUE
  /\ pc = BootState(mem, rtcPresent).pc
  /\ logCount = BootState(mem, rtcPresent).logCount
  /\ insideCount = BootState(mem, rtcPresent).insideCount
  /\ lastOp = BootOp
  /\ lastLogged = NoHistory
  /\ fresh = FALSE
  /\ soloN = -1
  /\ soloCard = <<>>
  /\ steps = 0
  /\ blank = BlankOff
  /\ menu = InitMenu
  /\ lcd = NoLcd
  /\ panel = InitPanel
  /\ InitBench

SpecParse == InitParse /\ [][NextView]_vars

(***************************************************************************)
(* Power lost between two byte writes of a scan that evicts                *)
(***************************************************************************)
\* a valid scan on a full log loses power after k of its byte writes, at
\* least one and not all of them; the device then boots
TornEviction ==
  /\ pc = "loop"
  /\ steps = 0
  /\ steps' = 1
  /\ logCount >= MAX_LOGS
  /\ UNCHANGED <<session, rtcPresent, pc, lastLogged, soloCard>>
  /\ \E card \in ValidCards :
       \E e \in {ScanEffect(mem, logCount, card, {}, TimeSeq[2])} :
         \E ic \in InsideAfter(insideCount, e.status) :
           \E k \in 1..(ByteCount(e.ops \o writeInt(2, ic)) - 1) :
             /\ mem' = Apply(mem, FirstWrites(e.ops \o writeInt(2, ic), k))
             /\ lastOp' = Op("torn", e.cardID, e.name, e.status, e.log, {}, TimeSeq[2],
                             logCount)
  /\ logCount' = BootState(mem', TRUE).logCount
  /\ insideCount' = BootState(mem', TRUE).insideCount
  /\ fresh' = FALSE
  /\ soloN' = -1
  /\ blank' = BlankOff
  /\ menu' = InitMenu
  /\ lcd' = NoLcd
  /\ panel' = InitPanel
  /\ UNCHANGED benchVars

NextOrder == SessionScan \/ TornScan \/ TornEviction

SpecOrder == InitTorn /\ [][NextOrder]_vars

(***************************************************************************)
(* The buttons in time: loop calls handleButtons again and again, the pins *)
(* are LOW while a button is held, and displayClearConfirm reads them      *)
(***************************************************************************)
MaxPoll == 4

\* the time between two handleButtons calls
PollGaps == {50, 200}

\* the time a button action that does not wait takes to draw its screen
DisplayTimes == {10, 50}

\* the pins while displayClearConfirm runs, in milliseconds from its start:
\* SELECT, LOW from the press that opened the prompt, is released at selectUp
\* and pressed again at selectDown; MENU is pressed at menuDown
PromptPins ==
  {w \in [selectUp : {100, 600}, selectDown : {Never, 1000}, menuDown : {Never, 800, 2000}] :
     w.selectDown = Never \/ w.selectDown > w.selectUp}

\* the pins of a poll that does not run displayClearConfirm
NoPins == [selectUp |-> 100, selectDown |-> Never, menuDown |-> Never]

\* displayClearConfirm: delay(500), then for 5000 ms each turn of the loop
\* reads SELECT first and MENU second; the first LOW read ends it
displayClearConfirm(w) ==
  LET end == CONFIRM_DELAY_MS + CONFIRM_WINDOW_MS
      tSelect == IF w.selectUp > CONFIRM_DELAY_MS THEN CONFIRM_DELAY_MS
                 ELSE IF w.selectDown # Never /\ w.selectDown < end
                 THEN Max(CONFIRM_DELAY_MS, w.selectDown)
                 ELSE Never
      tMenu == IF w.menuDown # Never /\ w.menuDown < end
               THEN Max(CONFIRM_DELAY_MS, w.menuDown)
               ELSE Never
  IN IF tSelect # Never /\ (tMenu = Never \/ tSelect <= tMenu)
     THEN [outcome |-> "clear", newPress |-> w.selectUp <= CONFIRM_DELAY_MS, at |-> tSelect]
     ELSE IF tMenu # Never
     THEN [outcome |-> "menu", newPress |-> FALSE, at |-> tMenu]
     ELSE [outcome |-> "timeout", newPress |-> FALSE, at |-> end]

\* the MENU block of handleButtons when it accepts the press
MenuPress(mn) ==
  IF mn.inSubMenu
  THEN displayHomeScreen([mn EXCEPT !.inSubMenu = FALSE, !.logViewIndex = 0])
  ELSE [mn EXCEPT !.menuIndex = (mn.menuIndex + 1) % 5]

\* the SELECT block of handleButtons when it accepts the press: the menu
\* variables when executeMenuAction or displayLogEntry has returned
SelectPress(mn, lc) ==
  IF ~mn.inSubMenu
  THEN IF mn.menuIndex = 0
       THEN [mn EXCEPT !.currentMenu = "MENU_VIEW_LOGS", !.inSubMenu = TRUE, !.logViewIndex = 0]
       ELSE displayHomeScreen(mn)
  ELSE IF mn.currentMenu = "MENU_VIEW_LOGS"
  THEN [mn EXCEPT !.logViewIndex = NextLogViewIndex(mn.logViewIndex, lc)]
  ELSE mn

\* what the SELECT block does to the log view
SelectLcd(mn, lc) ==
  IF ~mn.inSubMenu
  THEN IF mn.menuIndex = 0 THEN Lcd("open", mn.logViewIndex, displayLogEntryReads(lc, 0))
       ELSE NoLcd
  ELSE IF mn.currentMenu = "MENU_VIEW_LOGS"
  THEN Lcd("next", mn.logViewIndex,
           displayLogEntryReads(lc, NextLogViewIndex(mn.logViewIndex, lc)))
  ELSE NoLcd

\* displayLogEntry(index) waits (delay(1000)) when it shows a record
EntryWaits(m, lc, index) ==
  lc > 0 /\ displayLogEntryLines(readLogEntry(m, index), index).shown

\* the SELECT block waits DEBOUNCE_MS or longer before it returns: in
\* displayStatus, displayClearConfirm and displaySetTimePrompt, and in
\* displayLogEntry when it shows a record
SelectWaits(mn, m, lc) ==
  IF ~mn.inSubMenu
  THEN mn.menuIndex \in {1, 2, 3} \/ (mn.menuIndex = 0 /\ EntryWaits(m, lc, 0))
  ELSE mn.currentMenu = "MENU_VIEW_LOGS"
         /\ EntryWaits(m, lc, NextLogViewIndex(mn.logViewIndex, lc))

\* the actions of the press that holds a pin LOW, after one more poll
HeldActs(low, wasLow, acts, accepted) ==
  IF low THEN (IF wasLow THEN acts ELSE 0) + (IF accepted THEN 1 ELSE 0) ELSE 0

\* menuButtonPressed and selectButtonPressed after a block of handleButtons
PressedFlag(flag, low, accepted) ==
  IF accepted THEN TRUE ELSE IF ~low THEN FALSE ELSE flag

\* one call of handleButtons, dt after the last one returned, with the two
\* pins at the given levels; d is the time a screen takes to draw
Poll ==
  /\ pc = "loop"
  /\ steps < MaxPoll
  /\ steps' = steps + 1
  /\ UNCHANGED <<session, rtcPresent, pc>>
  /\ UNCHANGED benchVars
  /\ \E dt \in PollGaps, menuLow \in BOOLEAN, selectLow \in BOOLEAN, d \in DisplayTimes :
       LET elapsed == Min(panel.sincePress + dt, DEBOUNCE_MS)
           idle == Min(panel.sinceAction + dt, DEBOUNCE_MS)
           open == elapsed >= DEBOUNCE_MS
           acceptM == open /\ menuLow /\ ~panel.menuButtonPressed
           acceptS == open /\ selectLow /\ ~panel.selectButtonPressed
           menu1 == IF acceptM THEN MenuPress(menu) ELSE menu
           menu2 == IF acceptS THEN SelectPress(menu1, logCount) ELSE menu1
           lcd2 == IF acceptS THEN SelectLcd(menu1, logCount) ELSE NoLcd
           prompts == acceptS /\ ~menu1.inSubMenu /\ menu1.menuIndex = 2
           waits == acceptS /\ SelectWaits(menu1, mem, logCount)
           gap1 == IF acceptM \/ acceptS THEN Min(panel.gap, idle) ELSE panel.gap
       IN \E w \in IF prompts THEN PromptPins ELSE {NoPins} :
            \E p \in {IF prompts THEN displayClearConfirm(w) ELSE NoPrompt} :
              /\ panel' =
                   [sincePress |-> IF waits THEN DEBOUNCE_MS
                                   ELSE IF acceptM /\ acceptS THEN 2 * d
                                   ELSE IF acceptM \/ acceptS THEN d
                                   ELSE elapsed,
                    menuButtonPressed |->
                      IF open THEN PressedFlag(panel.menuButtonPressed, menuLow, acceptM)
                      ELSE panel.menuButtonPressed,
                    selectButtonPressed |->
                      IF open THEN PressedFlag(panel.selectButtonPressed, selectLow, acceptS)
                      ELSE panel.selectButtonPressed,
                    menuLow |-> menuLow,
                    selectLow |-> selectLow,
                    sinceAction |-> IF waits THEN DEBOUNCE_MS
                                    ELSE IF acceptM \/ acceptS THEN d
                                    ELSE idle,
                    gap |-> IF acceptM /\ acceptS THEN Min(gap1, d) ELSE gap1,
                    menuActs |-> HeldActs(menuLow, panel.menuLow, panel.menuActs, acceptM),
                    selectActs |-> HeldActs(selectLow, panel.selectLow, panel.selectActs, acceptS),
                    prompt |-> p]
              /\ IF p.outcome = "clear"
                 THEN /\ clearLogs
                      /\ menu' = menu2
                      /\ lcd' = lcd2
                      /\ lastOp' = Op("clear", <<>>, <<>>, NoStatus, <<>>, {}, NoTime, logCount)
                 ELSE ButtonOnly(menu2, lcd2)

NextPanel == Poll

SpecPanel == InitParse /\ [][NextPanel]_vars

(***************************************************************************)
(* Properties                                                              *)
(***************************************************************************)
\* C1: an append on a full log (logCount = MAX_LOGS) leaves logCount at
\* MAX_LOGS, moves every record one slot down (slot i then holds what slot
\* i+1 held) and puts the new record in the last slot.
C1_FullAppendEvictsOldest ==
  [][(lastOp'.op = "scan" /\ logCount = MAX_LOGS) =>
       /\ logCount' = MAX_LOGS
       /\ \A i \in 0..(MAX_LOGS - 2) : readLogEntry(mem', i) = readLogEntry(mem, i + 1)
       /\ readLogEntry(mem', MAX_LOGS - 1)
            = LogText(lastOp'.cardID, lastOp'.name, lastOp'.status, lastOp'.now)]_vars

\* a valid scan has just been appended to a full log of written records
C1_Witness ==
  /\ lastOp.op = "scan"
  /\ lastOp.before = MAX_LOGS
  /\ fresh
  /\ readLogEntry(mem, 0) # readLogEntry(mem, 1)

\* C2: in every reachable state 0 <= logCount <= MAX_LOGS.
C2_LogCountInRange == logCount >= 0 /\ logCount <= MAX_LOGS

\* a boot has found a logCount above MAX_LOGS in the header
C2_Witness == lastOp.op = "boot" /\ readInt(mem, 0) > MAX_LOGS /\ logCount = 0

\* C3: the statuses logged for one card ID by its successive valid scans
\* since the log was empty alternate IN, OUT, IN, ..., starting with IN.
C3_StatusesAlternate ==
  [][(lastOp'.op = "scan" /\ fresh) =>
       lastOp'.status = (IF lastLogged[lastOp'.cardID] = NoStatus THEN S_IN
                         ELSE Toggle(lastLogged[lastOp'.cardID]))]_vars

\* C4: a valid scan of a card logs the opposite of getLastStatus before the
\* scan, and getLastStatus after the scan is the status logged.
C4_ScanTogglesLastStatus ==
  [][lastOp'.op = "scan" =>
       /\ lastOp'.status = Toggle(getLastStatus(mem, logCount, lastOp'.cardID))
       /\ getLastStatus(mem', logCount', lastOp'.cardID) = lastOp'.status]_vars

\* C5: getLastStatus(id) is the status field of the highest-index record
\* whose cardID field equals id, and OUT when there is no such record.
C5_LastStatusByCardIDField ==
  fresh =>
    \A id \in KnownIDs :
      LET hits == {i \in 0..(logCount - 1) :
                     /\ ParseLog(readLogEntry(mem, i)).ok
                     /\ ParseLog(readLogEntry(mem, i)).cardID = id}
      IN getLastStatus(mem, logCount, id)
           = (IF hits = {} THEN S_OUT
              ELSE ParseLog(readLogEntry(mem, CHOOSE i \in hits : \A h \in hits : h <= i)).status)

\* C6: a card ID not scanned since the log was empty has getLastStatus OUT
\* and its first valid scan logs IN.
C6_FirstScanLogsIn ==
  [][(lastOp'.op = "scan" /\ fresh /\ lastLogged[lastOp'.cardID] = NoStatus) =>
       /\ getLastStatus(mem, logCount, lastOp'.cardID) = S_OUT
       /\ lastOp'.status = S_IN]_vars

\* C7: after n consecutive valid scans of one card from an empty log and a
\* zero tally, the n-th status is IN for odd n and OUT for even n,
\* insideCount = n mod 2 and logCount = min(n, MAX_LOGS).
C7_SingleCardRun ==
  soloN >= 1 =>
    /\ lastOp.status = (IF soloN % 2 = 1 THEN S_IN ELSE S_OUT)
    /\ insideCount = soloN % 2
    /\ logCount = Min(soloN, MAX_LOGS)

\* C8: insideCount is never negative.
C8_InsideCountNonNegative == insideCount >= 0

\* C9: an append on a log that is not full writes the new record into slot
\* logCount, adds one to logCount and leaves the records below unchanged.
C9_AppendAtLogCount ==
  [][(lastOp'.op = "scan" /\ logCount < MAX_LOGS) =>
       /\ readLogEntry(mem', logCount)
            = LogText(lastOp'.cardID, lastOp'.name, lastOp'.status, lastOp'.now)
       /\ logCount' = logCount + 1
       /\ \A i \in 0..(logCount - 1) : readLogEntry(mem', i) = readLogEntry(mem, i)]_vars

\* a valid scan has just been appended above at least two written records
C9_Witness ==
  /\ lastOp.op = "scan"
  /\ lastOp.before >= 2
  /\ lastOp.before < MAX_LOGS
  /\ logCount = lastOp.before + 1
  /\ fresh

\* C10: a scan that reads an empty name or an empty ID is rejected: nothing
\* is appended, and logCount, insideCount and the store stay as they were.
C10_EmptyCardRejected ==
  [][(lastOp'.op \in {"scan", "denied"}
        /\ (Len(lastOp'.name) = 0 \/ Len(lastOp'.cardID) = 0)) =>
       /\ lastOp'.op = "denied"
       /\ mem' = mem
       /\ logCount' = logCount
       /\ insideCount' = insideCount]_vars

\* a card with a name and no ID has just been rejected on a non-empty log
C10_Witness ==
  /\ lastOp.op = "denied"
  /\ Len(lastOp.name) > 0
  /\ Len(lastOp.cardID) = 0
  /\ logCount > 0

\* C11: a scan during which a card block fails to authenticate or to read
\* is aborted, whichever blocks fail: nothing is appended, and logCount,
\* insideCount and the store stay as they were.
C11_FailedReadAbortsScan ==
  [][(lastOp'.op \in {"scan", "denied"} /\ lastOp'.failed # {}) =>
       /\ lastOp'.op = "denied"
       /\ mem' = mem
       /\ logCount' = logCount
       /\ insideCount' = insideCount]_vars

\* C12: clearLogs sets logCount and insideCount to 0, writes zero to header
\* bytes 0..3 and leaves every byte from address 100 on unchanged.
C12_ClearKeepsRecordBytes ==
  [][lastOp'.op = "clear" =>
       /\ logCount' = 0
       /\ insideCount' = 0
       /\ \A a \in 0..3 : readByte(mem', a) = 0
       /\ ReadRun(mem', LOG_BASE, EEPROM_BYTES - LOG_BASE)
            = ReadRun(mem, LOG_BASE, EEPROM_BYTES - LOG_BASE)]_vars

\* a log of several records has just been cleared and its first record is
\* still in the store
C12_Witness ==
  /\ lastOp.op = "clear"
  /\ lastOp.before >= 2
  /\ logCount = 0
  /\ ParseLog(readLogEntry(mem, 0)).ok

\* C13: after clearLogs, every scan logs the status it logs on a
\* zero-filled store with an empty log, and logCount, insideCount and the
\* records below logCount are the same as there: the bytes a clear leaves
\* behind never show.
C13_StaleBytesInert ==
  blank.on =>
    /\ logCount = blank.logCount
    /\ insideCount = blank.insideCount
    /\ (lastOp.op = "scan" => lastOp.status = blank.status)
    /\ \A i \in 0..(logCount - 1) : readLogEntry(mem, i) = readLogEntry(blank.mem, i)

\* two scans after a clear, the second one logged OUT, with a record of
\* before the clear still in the slot above them
C13_Witness ==
  /\ blank.on
  /\ lastOp.op = "scan"
  /\ lastOp.status = S_OUT
  /\ logCount >= 2
  /\ ParseLog(readLogEntry(mem, logCount)).ok

\* C14: a power loss in an append between the write of the record and the
\* write of logCount is not seen after the reboot, whatever logCount was
\* (0..MAX_LOGS): logCount and the records below it are those of before
\* the append, and the next append writes into the slot the interrupted
\* one used.
C14_InterruptedAppendInvisible ==
  [][/\ lastOp'.op = "crash" =>
          /\ logCount' = logCount
          /\ \A i \in 0..(logCount - 1) : readLogEntry(mem', i) = readLogEntry(mem, i)
     /\ (lastOp.op = "crash" /\ lastOp'.op = "scan") =>
          readLogEntry(mem', Min(lastOp.before, MAX_LOGS - 1)) = lastOp'.log]_vars

\* C15: a power cycle between two loop iterations loses nothing: after the
\* reboot logCount, insideCount and the records below logCount are those
\* of just before the power cycle.
C15_PowerCycleLosesNothing ==
  [][(lastOp'.op = "boot" /\ pc = "loop" /\ pc' = "loop") =>
       /\ logCount' = logCount
       /\ insideCount' = insideCount
       /\ \A i \in 0..(logCount - 1) : readLogEntry(mem', i) = readLogEntry(mem, i)]_vars

\* C16: after every completed valid scan and every completed clear, header
\* bytes 0-1 hold logCount and header bytes 2-3 hold insideCount, high
\* byte first (16-bit two's complement).
C16_HeaderHoldsCounters ==
  [][lastOp'.op \in {"scan", "clear"} =>
       /\ readByte(mem', 0) = (logCount' \div 256) % 256
       /\ readByte(mem', 1) = logCount' % 256
       /\ readByte(mem', 2) = (insideCount' \div 256) % 256
       /\ readByte(mem', 3) = insideCount' % 256]_vars

\* a scan has left a tally that needs both header bytes
C16_Witness ==
  /\ lastOp.op = "scan"
  /\ logCount > 0
  /\ insideCount > 255
  /\ insideCount % 256 # 0

\* C17: at boot with the clock present, for any four header bytes,
\* logCount is the stored 16-bit value when that is in 0..MAX_LOGS and 0
\* otherwise, insideCount is the stored value when that is non-negative as
\* a signed 16-bit number and 0 otherwise, and setup returns.
C17_BootValidatesHeader ==
  (lastOp.op = "boot" /\ rtcPresent) =>
    LET lc == readByte(mem, 0) * 256 + readByte(mem, 1)
        ic == readByte(mem, 2) * 256 + readByte(mem, 3)
    IN /\ pc = "loop"
       /\ logCount = (IF lc <= MAX_LOGS THEN lc ELSE 0)
       /\ insideCount = (IF ic < 32768 THEN ic ELSE 0)
       /\ initializeEEPROM(mem) = [logCount |-> logCount, insideCount |-> insideCount]

\* a reboot has found a logCount above MAX_LOGS and a negative insideCount
C17_Witness ==
  /\ lastOp.op = "boot"
  /\ rtcPresent
  /\ steps > 0
  /\ readByte(mem, 0) * 256 + readByte(mem, 1) > MAX_LOGS
  /\ readByte(mem, 2) >= 128
  /\ logCount = 0
  /\ insideCount = 0

\* C18: the record a valid scan stores (cardID 1..8 characters, name 1..32
\* characters, status IN or OUT, a timestamp), split at '|' as viewLogs and
\* displayLogEntry split it, gives back the four fields that were encoded,
\* and these fields encode to the same text.
C18_RecordRoundTrip ==
  lastOp.op = "scan" =>
    LET log == readLogEntry(mem, logCount - 1)
        p == ParseLog(log)
    IN /\ p.ok
       /\ p.cardID = lastOp.cardID
       /\ p.name = lastOp.name
       /\ p.status = lastOp.status
       /\ p.dateTime = TimeText(lastOp.now)
       /\ p.cardID \o S_Pipe \o p.name \o S_Pipe \o p.status \o S_Pipe \o p.dateTime = log

\* C19: the serial commands 'v' and 's' and every character other than
\* 'v', 'c', 's', 't' leave logCount, insideCount and every store byte
\* unchanged.
C19_OnlyClearCommandWrites ==
  [][\A cmd \in Commands \ {"c", "t"} :
       SerialCommand(cmd) =>
         /\ mem' = mem
         /\ logCount' = logCount
         /\ insideCount' = insideCount]_vars

\* a command other than 'c' has been handled with records in the log and
\* people inside
C19_Witness ==
  /\ lastOp.op = "cmd"
  /\ logCount > 0
  /\ insideCount > 0
  /\ steps > 0

\* C20: when the clock module is absent at boot the device halts for good:
\* the header is not read (logCount and insideCount keep their initial 0)
\* and until the next power cycle there is no scan, no command and no
\* store write.
C20_NoClockHalts ==
  /\ [](~rtcPresent => (pc = "halt" /\ logCount = 0 /\ insideCount = 0))
  /\ [][~rtcPresent => (lastOp'.op = "boot" /\ mem' = mem)]_vars

\* the device has been powered up without its clock on a store whose
\* header holds a valid, non-zero logCount
C20_Witness ==
  /\ ~rtcPresent
  /\ pc = "halt"
  /\ steps > 0
  /\ readInt(mem, 0) > 0
  /\ readInt(mem, 0) <= MAX_LOGS

C23_ErasedCardDenied ==
  [][(lastProg.op = "e" /\ lastProg.ok /\ steps' # steps) =>
       /\ lastOp'.op = "denied"
       /\ mem' = mem
       /\ logCount' = logCount
       /\ insideCount' = insideCount]_vars

\* a card that held a name and an ID has been erased, then scanned
C23_Witness ==
  /\ lastProg.op = "e"
  /\ lastProg.ok
  /\ CardIDOf(lastProg.before) # <<>>
  /\ CardNameOf(lastProg.before) # <<>>
  /\ steps > lastProg.scans
  /\ lastOp.op = "denied"
  /\ logCount > 0

\* C24: in the card-programming sketch no card operation takes place and
\* the card keeps its blocks while no mode is selected; a mode becomes
\* selected only when w, W, r, R, e or E is received with no mode selected,
\* and any other character received leaves the mode unselected.
C24_ModeGatesCardOperations ==
  [][/\ (selectedMode = NoMode => (progN' = progN /\ cardBlocks' = cardBlocks))
     /\ ((selectedMode' # selectedMode /\ selectedMode' # NoMode) =>
           /\ selectedMode = NoMode
           /\ lastProg'.op = "select"
           /\ lastProg'.cmd \in {"w", "W", "r", "R", "e", "E"})
     /\ ((lastProg' # lastProg /\ lastProg'.op = "select"
            /\ lastProg'.cmd \notin {"w", "W", "r", "R", "e", "E"}) =>
           selectedMode' = NoMode)]_vars

\* a character other than the six mode letters has been received and a
\* programmed card is at the station
C24_Witness ==
  /\ lastProg.op = "select"
  /\ lastProg.cmd = "x"
  /\ selectedMode = NoMode
  /\ cardBlocks # BlankCard

\* C25: in the card-programming sketch every card operation ends with
\* selectedMode back at "no mode", whether it went through or not, and the
\* step of the sketch before a card operation is the selection of its
\* mode: one card operation at most per selection.
C25_ModeResetAfterOperation ==
  [][progN' # progN =>
       /\ selectedMode' = NoMode
       /\ selectedMode # NoMode
       /\ lastProg.op = "select"
       /\ ModeOf(lastProg.cmd) = selectedMode
       /\ lastProg'.op = selectedMode]_vars

\* a write has failed on a refused block and no mode is selected
C25_Witness ==
  /\ lastProg.op = "w"
  /\ ~lastProg.ok
  /\ lastProg.failed # {}
  /\ Len(lastProg.name) <= NAME_LENGTH
  /\ Len(lastProg.id) <= ID_LENGTH
  /\ selectedMode = NoMode

\* C26: in write mode, when the name entered is longer than 32 characters
\* or the ID entered longer than 8 characters (the text of the line, without
\* the whitespace around it, line ending included, that trim() removes), no
\* block of the card is written.
C26_LongInputWritesNothing ==
  (lastProg.op = "w"
     /\ (Len(lastProg.name) > NAME_LENGTH \/ Len(lastProg.id) > ID_LENGTH))
  => cardBlocks = lastProg.before

\* a write with an ID of 9 characters has been refused on a programmed card
C26_Witness ==
  /\ lastProg.op = "w"
  /\ Len(lastProg.id) > ID_LENGTH
  /\ Len(lastProg.name) <= NAME_LENGTH
  /\ ~lastProg.ok
  /\ cardBlocks = lastProg.before
  /\ cardBlocks # BlankCard

\* C21: in the EEPROM test sketch, after writeString(a, s) for a string s
\* without zero bytes, readString(a, length(s)) returns s, and every byte
\* written before by writeByte at an address outside [a, a + length(s)]
\* reads back as written.
C21_TestStringRoundTrip ==
  test.op = "writeString" =>
    /\ test_readString(mem, test.addr, Len(test.str)) = test.str
    /\ \A p \in test.singles :
         (p[1] < test.addr \/ p[1] > test.addr + Len(test.str)) =>
           readByte(mem, p[1]) = p[2]

\* a string has been written across the end of a 256-byte row, its
\* terminator over a byte written by writeByte, and another such byte lies
\* right before the string
C21_Witness ==
  /\ test.op = "writeString"
  /\ test.n = MaxTest
  /\ AddrHigh(test.addr) # AddrHigh(test.addr + Len(test.str))
  /\ \E p \in test.singles : p[1] = 1 /\ p[2] = 85
  /\ \E q \in test.singles : q[1] >= test.addr /\ readByte(mem, q[1]) # q[2]

\* C30: for any string s, writeString(addr, s) of the attendance sketch
\* writes the first min(length(s), LOG_SIZE-1) characters of s at addr on,
\* a zero byte after them, and changes no byte outside
\* [addr, addr + LOG_SIZE).
C30_WriteStringStaysInSlot ==
  [][test'.op = "writeString" =>
       LET n == Min(Len(test'.str), LOG_SIZE - 1)
       IN /\ ReadRun(mem', test'.addr, n) = SubSeq(test'.str, 1, n)
          /\ readByte(mem', test'.addr + n) = 0
          /\ \A a \in 0..(EEPROM_BYTES - 1) :
               (a < test'.addr \/ a >= test'.addr + LOG_SIZE) =>
                 readByte(mem', a) = readByte(mem, a)]_vars

\* C27: after a clear and any number of completed valid scans, with no
\* reboot and no crash, insideCount is the number of card IDs whose latest
\* logged scan has status IN.
C27_InsideCountTalliesIn ==
  blank.on =>
    insideCount = Cardinality({id \in KnownIDs : lastLogged[id] = S_IN})

\* C28: when a valid scan starts with logCount < MAX_LOGS and power is lost
\* between two of its byte writes, then after the reboot every record below
\* the old logCount is unchanged and logCount is the old logCount or the
\* old logCount + 1.
C28_TornScanKeepsLog ==
  [][lastOp'.op = "torn" =>
       /\ \A i \in 0..(logCount - 1) : readLogEntry(mem', i) = readLogEntry(mem, i)
       /\ logCount' \in {logCount, logCount + 1}]_vars

\* C29: every record slot read by an operation has an index i with
\* 0 <= i < logCount at the time of the read: the reads of getLastStatus
\* and shiftLogs in a scan, those of viewLogs, and those of the LCD log
\* view when it is opened from the menu or advanced with SELECT, also
\* after a clear made while the log view was open.
C29_SlotReadsBelowLogCount ==
  /\ [](\A i \in lcd.reads : 0 <= i /\ i < logCount)
  /\ [][/\ (lastOp'.op = "scan" =>
              \A i \in ScanReads(mem, logCount, lastOp'.cardID) : 0 <= i /\ i < logCount)
        /\ (lastOp'.op = "cmd" =>
              \A i \in viewLogsReads(logCount) : 0 <= i /\ i < logCount)]_vars

\* SELECT has been pressed in the log view, opened on the second record,
\* after the log was cleared under it
C29_Witness ==
  /\ lcd.op = "next"
  /\ lcd.from > 0
  /\ lastOp.op = "button"
  /\ blank.on
  /\ logCount = 0
  /\ menu.inSubMenu
  /\ menu.currentMenu = "MENU_VIEW_LOGS"

\* C31: every record text logEntry builds from a scanned card (ID of at
\* most ID_LENGTH characters, name of at most NAME_LENGTH characters,
\* status IN or OUT, a timestamp) has at most LOG_SIZE-1 characters: the
\* record is stored whole, and a scan changes no byte outside the header
\* and the record slots (outside the header and the slot appended to when
\* the log was not full).
C31_RecordFitsSlot ==
  [][lastOp'.op = "scan" =>
       LET i == logCount' - 1
       IN /\ Len(lastOp'.cardID) <= ID_LENGTH
          /\ Len(lastOp'.name) <= NAME_LENGTH
          /\ Len(lastOp'.log) <= LOG_SIZE - 1
          /\ readLogEntry(mem', i) = lastOp'.log
          /\ readByte(mem', SlotAddr(i) + Len(lastOp'.log)) = 0
          /\ \A a \in 4..(EEPROM_BYTES - 1) :
               (IF logCount < MAX_LOGS
                THEN a < SlotAddr(i) \/ a >= SlotAddr(i) + LOG_SIZE
                ELSE a < SlotAddr(0) \/ a >= SlotAddr(MAX_LOGS)) =>
                 readByte(mem', a) = readByte(mem, a)]_vars

\* a record of the longest fields has been stored: an ID cut to ID_LENGTH
\* characters, a name of NAME_LENGTH characters, status OUT and two-digit
\* day, month, hour and minute
C31_Witness ==
  /\ lastOp.op = "scan"
  /\ Len(lastOp.cardID) = ID_LENGTH
  /\ Len(lastOp.name) = NAME_LENGTH
  /\ lastOp.status = S_OUT
  /\ lastOp.now.day >= 10 /\ lastOp.now.month >= 10
  /\ lastOp.now.hour >= 10 /\ lastOp.now.minute >= 10
  /\ readLogEntry(mem, logCount - 1) = lastOp.log

\* C32: for any string s of at most LOG_SIZE-1 characters without zero
\* bytes, after writeString has written s into slot i, readLogEntry(i)
\* returns s, whatever bytes the slot held before (a longer record
\* included).
C32_SlotRoundTrip ==
  test.op = "slotWrite" =>
    \A i \in 0..(MAX_LOGS - 1) :
      SlotAddr(i) = test.addr => readLogEntry(mem, i) = test.str

\* a text has been written over a longer one in the same slot: bytes of
\* the longer text are left behind its terminator
C32_Witness ==
  /\ test.op = "slotWrite"
  /\ test.n = 2
  /\ Len(test.str) > 0
  /\ Len(test.str) < LOG_SIZE - 2
  /\ readByte(mem, test.addr + Len(test.str)) = 0
  /\ \A k \in 1..(LOG_SIZE - 2 - Len(test.str)) :
       readByte(mem, test.addr + Len(test.str) + k) \notin {0, 255}
  /\ readLogEntry(mem, (test.addr - LOG_BASE) \div LOG_SIZE) = test.str

\* C33: the store writes of a valid scan stay in place.  Each write made
\* while a record is shifted into slot i or appended to slot i goes to an
\* address in [LOG_BASE + LOG_SIZE*i, LOG_BASE + LOG_SIZE*i + LOG_SIZE),
\* so to no header byte and to no other slot; the logCount write goes to
\* addresses 0 and 1 only and the insideCount write to addresses 2 and 3
\* only.
C33_WritesStayInPlace ==
  [][lastOp'.op = "scan" =>
       \A le \in {logEntry(mem, logCount, lastOp'.cardID, lastOp'.name,
                           lastOp'.status, lastOp'.now)} :
         \A all \in {le.ops \o writeInt(2, insideCount')} :
           LET nSlot == Len(le.ops) - Len(writeInt(0, logCount'))
               nShift == nSlot - Len(writeString(0, <<>>))
               SlotOf(k) == IF k <= nShift THEN (k - 1) \div Len(writeString(0, <<>>))
                            ELSE logCount' - 1
               Within(run, lo, n) ==
                 \A a \in run[1]..(run[1] + Len(run[2]) - 1) : a >= lo /\ a < lo + n
           IN /\ mem' = Apply(mem, all)
              /\ nShift = (IF logCount >= MAX_LOGS THEN Len(shiftLogs(mem, logCount))
                           ELSE 0)
              /\ \A k \in 1..nSlot :
                   Within(all[k], LOG_BASE + LOG_SIZE * SlotOf(k), LOG_SIZE)
              /\ \A k \in (nSlot + 1)..Len(le.ops) : Within(all[k], 0, 2)
              /\ \A k \in (Len(le.ops) + 1)..Len(all) : Within(all[k], 2, 2)]_vars

\* a scan on a full log of records of LOG_SIZE-1 bytes: the shift has
\* written the last byte before the end of slot 0 and the terminator on
\* the slot's last byte
C33_Witness ==
  /\ lastOp.op = "scan"
  /\ lastOp.before = MAX_LOGS
  /\ readByte(mem, SlotAddr(0) + LOG_SIZE - 2) = 255
  /\ readByte(mem, SlotAddr(0) + LOG_SIZE - 1) = 0
  /\ readByte(mem, SlotAddr(1)) = 255

\* C34: in every state between operations of a run that started on a
\* zero-filled store, each slot i < logCount holds its record text, a
\* terminator, and then only zero bytes up to the end of the LOG_SIZE-byte
\* slot.
C34_SlotsZeroPadded ==
  session >= 0 =>
    \A i \in 0..(logCount - 1) :
      \A k \in Len(readLogEntry(mem, i))..(LOG_SIZE - 1) :
        readByte(mem, SlotAddr(i) + k) = 0

\* C35: writeInt(a, v) followed by readInt(a) returns v for every v in
\* 0..32767; the high byte of v is stored at address a and the low byte at
\* a + 1, and no other address is modified.
C35_IntRoundTrip ==
  [][test'.op = "writeInt" =>
       LET a == test'.addr
           v == test'.str[1]
       IN /\ v \in 0..32767
          /\ readInt(mem', a) = v
          /\ readByte(mem', a) = v \div 256
          /\ readByte(mem', a + 1) = v % 256
          /\ \A h \in DOMAIN mem :
               IF h \in {AddrHigh(a), AddrHigh(a + 1)}
               THEN \A l \in 0..255 :
                      (h * 256 + l) \notin {a, a + 1} =>
                        readByte(mem', h * 256 + l) = readByte(mem, h * 256 + l)
               ELSE mem'[h] = mem[h]]_vars

\* the largest value has been written across a page boundary of the store
\* and reads back; its two bytes differ
C35_Witness ==
  /\ test.op = "writeInt"
  /\ test.str = <<32767>>
  /\ AddrHigh(test.addr) # AddrHigh(test.addr + 1)
  /\ readByte(mem, test.addr) = 127
  /\ readByte(mem, test.addr + 1) = 255
  /\ readInt(mem, test.addr) = 32767

\* C36: a record whose text is not a non-empty first field followed by
\* three '|' delimiters is skipped: viewLogs prints no line for it and
\* displayLogEntry writes nothing to the display; the 'v' command and the
\* log view go on to the main loop and leave logCount, insideCount and
\* the store unchanged.
C36_UnparseableSkipped ==
  /\ [](\A i \in 0..(logCount - 1) :
          LET log == readLogEntry(mem, i)
              pipes == {k \in 1..Len(log) : log[k] = S_Pipe[1]}
          IN ~(Len(log) > 0 /\ log[1] # S_Pipe[1] /\ Cardinality(pipes) >= 3)
               => /\ viewLogsLine(log) = NoLine
                  /\ ~displayLogEntryLines(log, i).shown)
  /\ [][(lastOp'.op = "cmd" \/ lcd'.op \in {"open", "next"}) =>
          /\ pc' = "loop"
          /\ mem' = mem
          /\ logCount' = logCount
          /\ insideCount' = insideCount]_vars

\* SELECT has moved the log view to a record of three fields, between a
\* record with an empty first field and a record without a delimiter, and
\* the first record of the log is one that is shown
C36_Witness ==
  /\ lcd.op = "next"
  /\ lcd.reads = {2}
  /\ logCount = Len(ParseTexts)
  /\ readLogEntry(mem, 2) = ParseTexts[3]
  /\ Cardinality({k \in 1..Len(ParseTexts[3]) : ParseTexts[3][k] = S_Pipe[1]}) = 2
  /\ readLogEntry(mem, 1)[1] = S_Pipe[1]
  /\ readLogEntry(mem, 3) = Id_A12
  /\ displayLogEntryLines(readLogEntry(mem, 0), 0).shown
  /\ viewLogsLine(readLogEntry(mem, 0)) # NoLine

\* C37: the store writes of a valid scan come in this order: the shift
\* writes of an eviction, the bytes of the new record, the logCount
\* header, the insideCount header.  Wherever power is lost among them, a
\* byte of the new record's slot has changed only if every record was
\* shifted, a logCount header byte has changed only if the new record is
\* stored whole as well, and an insideCount header byte has changed only
\* if the logCount header holds the new count as well.
C37_ScanWriteOrder ==
  [][lastOp'.op = "torn" =>
       LET i == Min(logCount, MAX_LOGS - 1)
           shifted == logCount >= MAX_LOGS =>
                        \A j \in 0..(i - 1) : readLogEntry(mem', j) = readLogEntry(mem, j + 1)
           recordTouched == \E k \in 0..(LOG_SIZE - 1) :
                              readByte(mem', SlotAddr(i) + k) # readByte(mem, SlotAddr(i) + k)
           recordDone == readLogEntry(mem', i) = lastOp'.log
           countTouched == \E a \in {0, 1} : readByte(mem', a) # readByte(mem, a)
           countDone == readInt(mem', 0) = i + 1
           insideTouched == \E a \in {2, 3} : readByte(mem', a) # readByte(mem, a)
       IN /\ recordTouched => shifted
          /\ countTouched => (shifted /\ recordDone)
          /\ insideTouched => (shifted /\ recordDone /\ countDone)]_vars

\* power was lost between the two bytes of the insideCount header of a
\* scan that evicted: the first byte has changed, the second has not, and
\* the new record and its logCount are in the store
C37_Witness ==
  /\ lastOp.op = "torn"
  /\ lastOp.before = MAX_LOGS
  /\ readByte(mem, 2) # 127
  /\ readByte(mem, 3) = 255
  /\ readLogEntry(mem, MAX_LOGS - 1) = lastOp.log
  /\ readInt(mem, 0) = MAX_LOGS

\* C39: in every reachable state of the attendance terminal inSubMenu is
\* true only while currentMenu is MENU_VIEW_LOGS, whatever the order of
\* button presses, card scans and serial commands.
C39_SubMenuOnlyInLogView ==
  menu.inSubMenu => menu.currentMenu = "MENU_VIEW_LOGS"

\* C38: from the menu's Clear Logs entry clearLogs runs only on a SELECT press
\* that is new, made after the press that opened the prompt was released; when
\* the five seconds pass without a press, or MENU is pressed, the store,
\* logCount and insideCount stay as they were
C38_ClearNeedsNewSelectPress ==
  [][/\ lastOp'.op = "clear" => panel'.prompt.outcome = "clear" /\ panel'.prompt.newPress
     /\ panel'.prompt.outcome \in {"timeout", "menu"}
          => UNCHANGED <<mem, logCount, insideCount>>]_vars

\* C40: no two button actions start less than DEBOUNCE_MS apart, and one
\* continuous press of a button starts at most one action
C40_ButtonActionsSpaced ==
  /\ panel.gap >= DEBOUNCE_MS
  /\ panel.menuActs <= 1
  /\ panel.selectActs <= 1
====
